---------------------------- MODULE Spec2Model ----------------------------
(***************************************************************************)
(* A model of the pglike SQL translator (package pglike): the tokenizer,   *)
(* the rewrite passes and the Translate pipeline of src/translate*.go,     *)
(* and of the database/sql driver that runs translated statements.         *)
(*                                                                         *)
(* Text is a TLA+ string read as a sequence of code points; indices are    *)
(* the source's 0-based indices (At, Slice).  A token is a record          *)
(* [Kind, Value, Raw] as in the source's Token struct.  A Go run-time      *)
(* panic (slice bounds out of range) is the token sequence Panic.          *)
(***************************************************************************)
EXTENDS Naturals, Integers, Sequences, FiniteSets

VARIABLES sql, pc, tokens, result, round, prev,
          seqs, cst, got, script, innerCtx

\* the variables of a Translate call
tvars == <<sql, pc, tokens, result, round, prev>>

\* the variables of the driver: the _sequences table of the database, each
\* connection's position, the results its caller got, the caller's calls, and
\* whether the wrapped connection has the context-taking methods
dvars == <<seqs, cst, got, script, innerCtx>>

vars == <<sql, pc, tokens, result, round, prev, seqs, cst, got, script, innerCtx>>

---------------------------------------------------------------------------
(* Go's string and slice primitives, on 0-based indices.                   *)

\* s[i]
At(s, i) == SubSeq(s, i + 1, i + 1)

\* s[a:b]
Slice(s, a, b) == SubSeq(s, a + 1, b)

Min(S) == CHOOSE x \in S : \A y \in S : x <= y

Max(S) == CHOOSE x \in S : \A y \in S : x >= y

LowerLetters == "abcdefghijklmnopqrstuvwxyz"

UpperLetters == "ABCDEFGHIJKLMNOPQRSTUVWXYZ"

CharsOf(s) == { SubSeq(s, i, i) : i \in 1..Len(s) }

LowerSet == CharsOf(LowerLetters)

UpperSet == CharsOf(UpperLetters)

DigitSet == CharsOf("0123456789")

\* unicode.IsSpace, on the ASCII white space of the model's alphabet
SpaceSet == {" ", "\t", "\n", "\r", "\f"}

IsSpace(ch) == ch \in SpaceSet

\* unicode.IsDigit
IsDigit(ch) == ch \in DigitSet

\* unicode.IsLetter
IsLetter(ch) == ch \in LowerSet \/ ch \in UpperSet

IdentCharSet == LowerSet \cup UpperSet \cup DigitSet \cup {"_"}

IndexIn(ch, s) == CHOOSE i \in 1..Len(s) : SubSeq(s, i, i) = ch

UpperCh(ch) ==
    IF ch \in LowerSet THEN SubSeq(UpperLetters, IndexIn(ch, LowerLetters), IndexIn(ch, LowerLetters))
    ELSE ch

LowerCh(ch) ==
    IF ch \in UpperSet THEN SubSeq(LowerLetters, IndexIn(ch, UpperLetters), IndexIn(ch, UpperLetters))
    ELSE ch

RECURSIVE ToUpper(_)
\* strings.ToUpper
ToUpper(s) == IF s = "" THEN "" ELSE UpperCh(Head(s)) \o ToUpper(Tail(s))

RECURSIVE ToLower(_)
\* strings.ToLower
ToLower(s) == IF s = "" THEN "" ELSE LowerCh(Head(s)) \o ToLower(Tail(s))

\* strings.HasPrefix
HasPrefix(s, p) == Len(s) >= Len(p) /\ SubSeq(s, 1, Len(p)) = p

\* s[i:] starts with p (0-based i)
MatchAt(s, i, p) == i + Len(p) <= Len(s) /\ Slice(s, i, i + Len(p)) = p

\* strings.Contains
Contains(s, p) == \E i \in 0..Len(s) : MatchAt(s, i, p)

RECURSIVE ReplaceAll(_, _, _)
\* strings.ReplaceAll, for a non-empty old
ReplaceAll(s, old, new) ==
    IF s = "" THEN ""
    ELSE IF HasPrefix(s, old) THEN new \o ReplaceAll(SubSeq(s, Len(old) + 1, Len(s)), old, new)
    ELSE Head(s) \o ReplaceAll(Tail(s), old, new)

RECURSIVE TrimLeft(_, _)
TrimLeft(s, c) == IF s # "" /\ Head(s) = c THEN TrimLeft(Tail(s), c) ELSE s

RECURSIVE TrimRight(_, _)
TrimRight(s, c) ==
    IF s # "" /\ SubSeq(s, Len(s), Len(s)) = c THEN TrimRight(SubSeq(s, 1, Len(s) - 1), c) ELSE s

\* strings.Trim(s, c) for a one-character cutset
Trim(s, c) == TrimRight(TrimLeft(s, c), c)

\* the least j >= i with j >= Len(s) or s[j] not in S:  for i < n && s[i] in S { i++ }
ScanWhile(s, i, S) ==
    LET stop == { j \in i..Len(s) : j >= Len(s) \/ At(s, j) \notin S } IN Min(stop)

\* for i < n && s[i] not in S { i++ }
ScanUntil(s, i, S) ==
    LET stop == { j \in i..Len(s) : j >= Len(s) \/ At(s, j) \in S } IN Min(stop)

---------------------------------------------------------------------------
(* Tokens (src/translate.go).                                              *)

TokKeyword == "Keyword"
TokIdent == "Ident"
TokString == "String"
TokNumber == "Number"
TokOperator == "Operator"
TokParam == "Param"
TokParen == "Paren"
TokComma == "Comma"
TokSemicolon == "Semicolon"
TokWhitespace == "Whitespace"
TokComment == "Comment"
TokDot == "Dot"

Token(kind, value, raw) == [Kind |-> kind, Value |-> value, Raw |-> raw]

\* a synthesized token: Raw equals Value
Syn(kind, value) == Token(kind, value, value)

sqlKeywords ==
    { "SELECT", "FROM", "WHERE", "INSERT", "INTO",
      "UPDATE", "DELETE", "CREATE", "TABLE", "DROP",
      "ALTER", "ADD", "COLUMN", "INDEX", "IF",
      "NOT", "EXISTS", "NULL", "DEFAULT", "PRIMARY",
      "KEY", "UNIQUE", "CHECK", "FOREIGN", "REFERENCES",
      "ON", "SET", "VALUES", "AND", "OR",
      "IN", "IS", "AS", "JOIN", "LEFT",
      "RIGHT", "INNER", "OUTER", "CROSS", "FULL",
      "ORDER", "BY", "ASC", "DESC", "GROUP",
      "HAVING", "LIMIT", "OFFSET", "UNION", "ALL",
      "DISTINCT", "CASE", "WHEN", "THEN", "ELSE",
      "END", "BETWEEN", "LIKE", "ILIKE", "SIMILAR",
      "TO", "CAST", "TRUE", "FALSE", "BEGIN",
      "COMMIT", "ROLLBACK", "RETURNING", "WITH",
      "RECURSIVE", "EXCEPT", "INTERSECT", "CONSTRAINT",
      "CASCADE", "RESTRICT", "AUTOINCREMENT",
      "SERIAL", "BIGSERIAL", "SMALLSERIAL",
      "BOOLEAN", "BOOL",
      "VARCHAR", "CHARACTER", "VARYING", "CHAR",
      "TEXT", "INTEGER", "INT", "INT2", "INT4",
      "INT8", "SMALLINT", "BIGINT",
      "REAL", "FLOAT4", "FLOAT8", "DOUBLE", "PRECISION",
      "NUMERIC", "DECIMAL",
      "TIMESTAMP", "TIMESTAMPTZ", "DATE", "TIME", "TIMETZ",
      "UUID", "BYTEA", "JSON", "JSONB", "BLOB",
      "ZONE",
      "NOW", "CURRENT_DATE", "CURRENT_TIME", "CURRENT_TIMESTAMP",
      "EXTRACT", "COALESCE", "NULLIF",
      "REPLACE", "CONFLICT", "DO", "NOTHING",
      "OVER", "PARTITION", "WINDOW", "ROW", "ROWS",
      "RANGE", "PRECEDING", "FOLLOWING", "UNBOUNDED",
      "CURRENT", "EXCLUDE", "TIES", "OTHERS",
      "NO", "ACTION", "DEFERRABLE", "INITIALLY",
      "DEFERRED", "IMMEDIATE", "ONLY", "TEMPORARY",
      "TEMP", "UNLOGGED", "MATERIALIZED", "VIEW",
      "USING", "NATURAL", "LATERAL", "FETCH",
      "FIRST", "LAST", "NEXT", "PRIOR",
      "ABSOLUTE", "RELATIVE", "FORWARD", "BACKWARD",
      "SOME", "ANY", "EVERY", "ARRAY",
      "INTERVAL", "WITHOUT",
      "NULLS", "SEQUENCE", "INCREMENT", "START",
      "MINVALUE", "MAXVALUE", "CYCLE", "OWNED",
      "EXPLAIN", "ANALYZE", "VERBOSE", "PLAN",
      "QUERY" }

---------------------------------------------------------------------------
(* Tokenize (src/translate.go).  Each lexer below returns the index after  *)
(* the lexeme that starts at i.                                            *)

\* /* ... */ : i += 2; for i+1 < n && !(s[i] = '*' && s[i+1] = '/') { i++ }; if i+1 < n { i += 2 }
BlockCommentEnd(s, i) ==
    LET n == Len(s)
        stop == { j \in (i + 2)..(n + 1) :
                    ~(j + 1 < n) \/ (At(s, j) = "*" /\ At(s, j + 1) = "/") }
        j == Min(stop)
    IN IF j + 1 < n THEN j + 2 ELSE j

RECURSIVE EStringEnd(_, _)
\* E'...' with backslash escapes; i is the index after E'
EStringEnd(s, i) ==
    IF i >= Len(s) THEN i
    ELSE IF At(s, i) = "\\" /\ i + 1 < Len(s) THEN EStringEnd(s, i + 2)
    ELSE IF At(s, i) = "'" THEN i + 1
    ELSE EStringEnd(s, i + 1)

RECURSIVE StringEnd(_, _)
\* '...' with '' as an embedded quote; i is the index after the opening quote
StringEnd(s, i) ==
    IF i >= Len(s) THEN i
    ELSE IF At(s, i) = "'" /\ i + 1 < Len(s) /\ At(s, i + 1) = "'" THEN StringEnd(s, i + 2)
    ELSE IF At(s, i) = "'" THEN i + 1
    ELSE StringEnd(s, i + 1)

\* "..." : for i < n && s[i] != '"' { i++ }; if i < n { i++ }
QuotedIdentEnd(s, i) ==
    LET j == ScanUntil(s, i + 1, {"\""}) IN IF j < Len(s) THEN j + 1 ELSE j

\* a tryDollarQuote that knows only the empty tag $$
tryDollarQuoteEmptyTag(runes, i, n) ==
    LET found == { p \in (i + 2)..n : p + 2 <= n /\ Slice(runes, p, p + 2) = "$$" }
    IN IF i + 1 < n /\ Slice(runes, i, i + 2) = "$$" /\ found # {}
       THEN [ok |-> TRUE, tag |-> "$$", end |-> Min(found) + 2]
       ELSE [ok |-> FALSE, tag |-> "", end |-> 0]

\* tryDollarQuote: [ok, tag, end]
tryDollarQuote(runes, i, n) ==
    LET no == [ok |-> FALSE, tag |-> "", end |-> 0]
        j == i + 1
    IN IF i >= n \/ At(runes, i) # "$" THEN no
       ELSE IF j >= n THEN no
       ELSE LET k == ScanWhile(runes, j, IdentCharSet)
                tagOk == IF At(runes, j) = "$" THEN TRUE
                         ELSE IF At(runes, j) = "_" \/ IsLetter(At(runes, j))
                              THEN ~(k >= n \/ At(runes, k) # "$")
                              ELSE FALSE
                tag == IF At(runes, j) = "$" THEN Slice(runes, i, j + 1) ELSE Slice(runes, i, k + 1)
                tagLen == Len(tag)
                searchStart == i + tagLen
                found == { p \in searchStart..n : p + tagLen <= n /\ Slice(runes, p, p + tagLen) = tag }
            IN IF ~tagOk THEN no
               ELSE IF found = {} THEN no
               ELSE [ok |-> TRUE, tag |-> tag, end |-> Min(found) + tagLen]

\* a numeric literal, with the optional exponent
NumberEnd(s, i) ==
    LET n == Len(s)
        a == ScanWhile(s, i, DigitSet \cup {"."})
        b == IF a < n /\ At(s, a) \in {"e", "E"} THEN a + 1 ELSE a
        c == IF b > a /\ b < n /\ At(s, b) \in {"+", "-"} THEN b + 1 ELSE b
    IN IF b > a THEN ScanWhile(s, c, DigitSet) ELSE a

\* a keyword/identifier lexeme with its Raw uppercased
KeywordOrIdentUpperRaw(raw) ==
    LET upper == ToUpper(raw)
    IN IF upper \in sqlKeywords THEN Token(TokKeyword, upper, upper) ELSE Token(TokIdent, raw, raw)

\* the token of a keyword/identifier lexeme: a keyword keeps the source text as Raw
KeywordOrIdent(raw) ==
    LET upper == ToUpper(raw)
    IN IF upper \in sqlKeywords THEN Token(TokKeyword, upper, raw) ELSE Token(TokIdent, raw, raw)

\* a tokenizer without the branches for operators of more than one
\* character: every operator character is a token of its own
LexOneCharOperators(runes, i) ==
    LET n == Len(runes)
        ch == At(runes, i)
        has1 == i + 1 < n
        c1 == IF has1 THEN At(runes, i + 1) ELSE ""
        emit(kind, e) == [tok |-> Token(kind, Slice(runes, i, e), Slice(runes, i, e)), next |-> e]
        fixed(kind, v) == [tok |-> Syn(kind, v), next |-> i + Len(v)]
    IN IF IsSpace(ch) THEN emit(TokWhitespace, ScanWhile(runes, i, SpaceSet))
       ELSE IF ch = "-" /\ has1 /\ c1 = "-" THEN emit(TokComment, ScanUntil(runes, i, {"\n"}))
       ELSE IF ch = "/" /\ has1 /\ c1 = "*" THEN emit(TokComment, BlockCommentEnd(runes, i))
       ELSE IF ch \in {"E", "e"} /\ has1 /\ c1 = "'" THEN emit(TokString, EStringEnd(runes, i + 2))
       ELSE IF ch = "'" THEN emit(TokString, StringEnd(runes, i + 1))
       ELSE IF ch = "\"" THEN emit(TokIdent, QuotedIdentEnd(runes, i))
       ELSE IF ch = "$" THEN
            LET dq == tryDollarQuote(runes, i, n) IN
            IF dq.ok THEN
                LET content == Slice(runes, i + Len(dq.tag), dq.end - Len(dq.tag))
                    newRaw == "'" \o ReplaceAll(content, "'", "''") \o "'"
                IN [tok |-> Token(TokString, newRaw, newRaw), next |-> dq.end]
            ELSE IF has1 /\ IsDigit(c1) THEN emit(TokParam, ScanWhile(runes, i + 1, DigitSet))
            ELSE fixed(TokOperator, "$")
       ELSE IF IsDigit(ch) \/ (ch = "." /\ has1 /\ IsDigit(c1)) THEN emit(TokNumber, NumberEnd(runes, i))
       ELSE IF ch \in {"<", ">", "!", "="} THEN
            emit(TokOperator, IF has1 /\ c1 \in {"=", ">"} THEN i + 2 ELSE i + 1)
       ELSE IF ch \in {"+", "-", "*", "/", "%", "|", "&", "~", ":"} THEN emit(TokOperator, i + 1)
       ELSE IF ch \in {"(", ")"} THEN emit(TokParen, i + 1)
       ELSE IF ch = "," THEN emit(TokComma, i + 1)
       ELSE IF ch = ";" THEN emit(TokSemicolon, i + 1)
       ELSE IF ch = "." THEN emit(TokDot, i + 1)
       ELSE IF ch = "_" \/ IsLetter(ch) THEN
            LET e == ScanWhile(runes, i, IdentCharSet)
            IN [tok |-> KeywordOrIdent(Slice(runes, i, e)), next |-> e]
       ELSE emit(TokOperator, i + 1)

\* the token that starts at runes[i] and the index after it: [tok, next]
Lex(runes, i) ==
    LET n == Len(runes)
        ch == At(runes, i)
        has1 == i + 1 < n
        c1 == IF has1 THEN At(runes, i + 1) ELSE ""
        has2 == i + 2 < n
        c2 == IF has2 THEN At(runes, i + 2) ELSE ""
        emit(kind, e) == [tok |-> Token(kind, Slice(runes, i, e), Slice(runes, i, e)), next |-> e]
        fixed(kind, v) == [tok |-> Syn(kind, v), next |-> i + Len(v)]
    IN IF IsSpace(ch) THEN emit(TokWhitespace, ScanWhile(runes, i, SpaceSet))
       ELSE IF ch = "-" /\ has1 /\ c1 = "-" THEN emit(TokComment, ScanUntil(runes, i, {"\n"}))
       ELSE IF ch = "/" /\ has1 /\ c1 = "*" THEN emit(TokComment, BlockCommentEnd(runes, i))
       ELSE IF ch \in {"E", "e"} /\ has1 /\ c1 = "'" THEN emit(TokString, EStringEnd(runes, i + 2))
       ELSE IF ch = "'" THEN emit(TokString, StringEnd(runes, i + 1))
       ELSE IF ch = "\"" THEN emit(TokIdent, QuotedIdentEnd(runes, i))
       ELSE IF ch = "$" THEN
            LET dq == tryDollarQuote(runes, i, n) IN
            IF dq.ok THEN
                LET content == Slice(runes, i + Len(dq.tag), dq.end - Len(dq.tag))
                    newRaw == "'" \o ReplaceAll(content, "'", "''") \o "'"
                IN [tok |-> Token(TokString, newRaw, newRaw), next |-> dq.end]
            ELSE IF has1 /\ IsDigit(c1) THEN emit(TokParam, ScanWhile(runes, i + 1, DigitSet))
            ELSE fixed(TokOperator, "$")
       ELSE IF IsDigit(ch) \/ (ch = "." /\ has1 /\ IsDigit(c1)) THEN emit(TokNumber, NumberEnd(runes, i))
       ELSE IF ch = ":" /\ has1 /\ c1 = ":" THEN fixed(TokOperator, "::")
       ELSE IF ch = "!" /\ has1 /\ c1 = "~" THEN
            (IF has2 /\ c2 = "*" THEN fixed(TokOperator, "!~*") ELSE fixed(TokOperator, "!~"))
       ELSE IF ch = "~" /\ has1 /\ c1 = "*" THEN fixed(TokOperator, "~*")
       ELSE IF ch \in {"<", ">", "!", "="} THEN
            emit(TokOperator, IF has1 /\ c1 \in {"=", ">"} THEN i + 2 ELSE i + 1)
       ELSE IF ch = "-" /\ has1 /\ c1 = ">" THEN
            (IF has2 /\ c2 = ">" THEN fixed(TokOperator, "->>") ELSE fixed(TokOperator, "->"))
       ELSE IF ch = "|" /\ has1 /\ c1 = "|" THEN fixed(TokOperator, "||")
       ELSE IF ch \in {"+", "-", "*", "/", "%", "|", "&", "~", ":"} THEN emit(TokOperator, i + 1)
       ELSE IF ch \in {"(", ")"} THEN emit(TokParen, i + 1)
       ELSE IF ch = "," THEN emit(TokComma, i + 1)
       ELSE IF ch = ";" THEN emit(TokSemicolon, i + 1)
       ELSE IF ch = "." THEN emit(TokDot, i + 1)
       ELSE IF ch = "_" \/ IsLetter(ch) THEN
            LET e == ScanWhile(runes, i, IdentCharSet)
            IN [tok |-> KeywordOrIdent(Slice(runes, i, e)), next |-> e]
       ELSE emit(TokOperator, i + 1)

RECURSIVE TokenizeFrom(_, _, _)
TokenizeFrom(runes, i, toks) ==
    IF i >= Len(runes) THEN toks
    ELSE LET l == Lex(runes, i) IN TokenizeFrom(runes, l.next, Append(toks, l.tok))

\* Tokenize splits a SQL string into tokens.
Tokenize(s) == TokenizeFrom(s, 0, <<>>)

RECURSIVE ReassembleByValue(_)
\* a Reassemble that writes each token's Value
ReassembleByValue(toks) == IF toks = <<>> THEN "" ELSE Head(toks).Value \o ReassembleByValue(Tail(toks))

RECURSIVE Reassemble(_)
\* Reassemble concatenates the tokens' Raw.
Reassemble(toks) == IF toks = <<>> THEN "" ELSE Head(toks).Raw \o Reassemble(Tail(toks))

---------------------------------------------------------------------------
(* Token-slice helpers: tokens[i] of the source is toks[i + 1] here.       *)

Tk(toks, i) == toks[i + 1]

\* tokens[a:b]
TSlice(toks, a, b) == SubSeq(toks, a + 1, b)

IsKind(toks, j, kind) == j >= 0 /\ j < Len(toks) /\ Tk(toks, j).Kind = kind

IsTok(toks, j, kind, value) == IsKind(toks, j, kind) /\ Tk(toks, j).Value = value

IsKw(toks, j, value) == IsTok(toks, j, TokKeyword, value)

IsOpen(toks, j) == IsTok(toks, j, TokParen, "(")

IsClose(toks, j) == IsTok(toks, j, TokParen, ")")

\* for j < len(tokens) && tokens[j].Kind == TokWhitespace { j++ }
SkipWs(toks, j) ==
    IF j >= Len(toks) THEN j
    ELSE Min({ k \in j..Len(toks) : k >= Len(toks) \/ Tk(toks, k).Kind # TokWhitespace })

Sp == Syn(TokWhitespace, " ")
Kw(v) == Syn(TokKeyword, v)
Id(v) == Syn(TokIdent, v)
Str(v) == Syn(TokString, v)
Num(v) == Syn(TokNumber, v)
Op(v) == Syn(TokOperator, v)
LP == Syn(TokParen, "(")
RP == Syn(TokParen, ")")
Cm == Syn(TokComma, ",")

\* the outcome of a Go run-time panic inside a pass
Panic == << Token("panic", "", "") >>

IsPanic(toks) == toks = Panic

---------------------------------------------------------------------------
(* DDL passes (src/translate_ddl.go).                                      *)

pgTypeToSQLite ==
    [ BOOLEAN |-> "INTEGER", BOOL |-> "INTEGER", VARCHAR |-> "TEXT",
      CHARACTER |-> "TEXT", CHAR |-> "TEXT", TIMESTAMP |-> "TEXT",
      TIMESTAMPTZ |-> "TEXT", DATE |-> "TEXT", TIME |-> "TEXT",
      TIMETZ |-> "TEXT", UUID |-> "TEXT", BYTEA |-> "BLOB",
      JSON |-> "TEXT", JSONB |-> "TEXT", SMALLINT |-> "INTEGER",
      INT2 |-> "INTEGER", INT4 |-> "INTEGER", INT8 |-> "INTEGER",
      BIGINT |-> "INTEGER", FLOAT4 |-> "REAL", FLOAT8 |-> "REAL" ]

\* a peekKeyword that does not look past whitespace
peekKeywordAdjacent(toks, start, keyword) ==
    IF IsKw(toks, start, keyword) THEN [j |-> start, ok |-> TRUE] ELSE [j |-> start, ok |-> FALSE]

\* peekKeyword: [j, ok]
peekKeyword(toks, start, keyword) ==
    LET j == SkipWs(toks, start)
    IN IF IsKw(toks, j, keyword) THEN [j |-> j, ok |-> TRUE] ELSE [j |-> start, ok |-> FALSE]

RECURSIVE ParenWalk(_, _, _)
\* for j < len(tokens) && depth > 0 { depth +-= 1 on ( and ); j++ }
ParenWalk(toks, j, depth) ==
    IF j < Len(toks) /\ depth > 0
    THEN ParenWalk(toks, j + 1,
                   IF IsOpen(toks, j) THEN depth + 1
                   ELSE IF IsClose(toks, j) THEN depth - 1 ELSE depth)
    ELSE j

\* skipParenGroup: index of the last token consumed, or start - 1
skipParenGroup(toks, start) ==
    LET j == SkipWs(toks, start)
    IN IF IsOpen(toks, j) THEN ParenWalk(toks, j + 1, 1) - 1 ELSE start - 1

\* the index of ZONE in  [WITH|WITHOUT] TIME ZONE  after tokens[i], or -1
WithTimeZone(toks, i) ==
    LET j == SkipWs(toks, i + 1)
        k == SkipWs(toks, j + 1)
        l == SkipWs(toks, k + 1)
    IN IF (IsKw(toks, j, "WITH") \/ IsKw(toks, j, "WITHOUT"))
          /\ IsKw(toks, k, "TIME") /\ IsKw(toks, l, "ZONE")
       THEN l ELSE -1

\* one iteration of translateTypes at tokens[i]: [out, i] with i the last index consumed
translateTypesStep(toks, i, out) ==
    LET t == Tk(toks, i)
        v == t.Value
    IN IF t.Kind # TokKeyword THEN [out |-> Append(out, t), i |-> i]
       ELSE IF v = "DOUBLE" THEN
            LET pk == peekKeyword(toks, i + 1, "PRECISION")
            IN IF pk.ok THEN [out |-> Append(out, Kw("REAL")), i |-> pk.j]
               ELSE [out |-> Append(out, t), i |-> i]
       ELSE IF v = "CHARACTER" THEN
            LET j == SkipWs(toks, i + 1)
            IN IF IsKw(toks, j, "VARYING")
               THEN [out |-> Append(out, Kw("TEXT")), i |-> skipParenGroup(toks, j + 1)]
               ELSE [out |-> Append(out, Kw("TEXT")), i |-> skipParenGroup(toks, i + 1)]
       ELSE IF v \in {"VARCHAR", "CHAR"} THEN
            [out |-> Append(out, Kw("TEXT")), i |-> skipParenGroup(toks, i + 1)]
       ELSE IF v \in {"NUMERIC", "DECIMAL"} THEN
            [out |-> Append(out, Kw("REAL")), i |-> skipParenGroup(toks, i + 1)]
       ELSE IF v \in {"TIMESTAMP", "TIME"} THEN
            LET l == WithTimeZone(toks, i)
            IN [out |-> Append(out, Kw("TEXT")), i |-> IF l >= 0 THEN l ELSE i]
       ELSE IF v = "INTERVAL" THEN [out |-> Append(out, Kw("TEXT")), i |-> i]
       ELSE IF v \in DOMAIN pgTypeToSQLite THEN [out |-> Append(out, Kw(pgTypeToSQLite[v])), i |-> i]
       ELSE [out |-> Append(out, t), i |-> i]

RECURSIVE translateTypesFrom(_, _, _)
translateTypesFrom(toks, i, out) ==
    IF i >= Len(toks) THEN out
    ELSE LET r == translateTypesStep(toks, i, out) IN translateTypesFrom(toks, r.i + 1, r.out)

\* translateTypes replaces PG type names with SQLite equivalents.
translateTypes(toks) == translateTypesFrom(toks, 0, <<>>)

SerialTokens == << Kw("INTEGER"), Sp, Kw("PRIMARY"), Sp, Kw("KEY"), Sp, Kw("AUTOINCREMENT") >>

RECURSIVE translateSerialFrom(_, _, _)
translateSerialFrom(toks, i, out) ==
    IF i >= Len(toks) THEN out
    ELSE LET t == Tk(toks, i) IN
         IF t.Kind = TokKeyword /\ t.Value \in {"SERIAL", "BIGSERIAL", "SMALLSERIAL"}
         THEN LET j == SkipWs(toks, i + 1)
                  k == SkipWs(toks, j + 1)
                  last == IF IsKw(toks, j, "PRIMARY") /\ IsKw(toks, k, "KEY") THEN k ELSE i
              IN translateSerialFrom(toks, last + 1, out \o SerialTokens)
         ELSE translateSerialFrom(toks, i + 1, Append(out, t))

\* translateSerial replaces SERIAL/BIGSERIAL/SMALLSERIAL with INTEGER PRIMARY KEY AUTOINCREMENT.
translateSerial(toks) == translateSerialFrom(toks, 0, <<>>)

DefaultNowTokens == << Sp, LP, Id("datetime"), LP, Str("'now'"), RP, RP >>

RECURSIVE translateDefaultNowFrom(_, _, _)
translateDefaultNowFrom(toks, i, out) ==
    IF i >= Len(toks) THEN out
    ELSE LET t == Tk(toks, i) IN
         IF t.Kind = TokKeyword /\ t.Value = "DEFAULT"
         THEN LET j == SkipWs(toks, i + 1)
                  k == SkipWs(toks, j + 1)
                  l == SkipWs(toks, k + 1)
              IN IF IsKw(toks, j, "NOW") /\ IsOpen(toks, k) /\ IsClose(toks, l)
                 THEN translateDefaultNowFrom(toks, l + 1, Append(out, t) \o DefaultNowTokens)
                 ELSE translateDefaultNowFrom(toks, i + 1, Append(out, t))
         ELSE translateDefaultNowFrom(toks, i + 1, Append(out, t))

\* translateDefaultNow converts DEFAULT NOW() to DEFAULT (datetime('now')).
translateDefaultNow(toks) == translateDefaultNowFrom(toks, 0, <<>>)

\* translateDDL: type mappings, SERIAL, DEFAULT NOW()
translateDDL(toks) == translateDefaultNow(translateSerial(translateTypes(toks)))

---------------------------------------------------------------------------
(* Expression passes (src/translate_expr.go).                              *)

RECURSIVE WalkBack(_, _, _)
\* for j >= 0 && depth > 0 { depth +-= 1 on ) and (; if depth > 0 { j-- } }
WalkBack(out, j, depth) ==
    IF j >= 0 /\ depth > 0
    THEN LET d == IF IsClose(out, j) THEN depth + 1
                  ELSE IF IsOpen(out, j) THEN depth - 1 ELSE depth
         IN IF d > 0 THEN WalkBack(out, j - 1, d) ELSE j
    ELSE j

IsName(toks, j) == IsKind(toks, j, TokIdent) \/ IsKind(toks, j, TokKeyword)

\* extractLeftExpr: the index j with the result out[j:]; out[-1:] is a slice out of range
extractLeftExpr(out) ==
    IF Len(out) = 0 THEN 0
    ELSE IF IsClose(out, Len(out) - 1)
         THEN LET j == WalkBack(out, Len(out) - 2, 1)
              IN IF j > 0 /\ IsName(out, j - 1) THEN j - 1 ELSE j
         ELSE Len(out) - 1

RECURSIVE TypeWords(_, _, _)
\* the multi-word continuation of a type name: [result, i]
TypeWords(toks, i, res) ==
    LET j == SkipWs(toks, i)
    IN IF i < Len(toks) /\ IsKind(toks, j, TokKeyword)
          /\ Tk(toks, j).Value \in {"PRECISION", "VARYING", "ZONE", "WITH", "WITHOUT", "TIME"}
       THEN TypeWords(toks, j + 1, Append(res, Tk(toks, j)))
       ELSE [result |-> res, i |-> i]

\* extractTypeName: [result, end] with end the last index consumed
extractTypeName(toks, start) ==
    LET i == SkipWs(toks, start)
    IN IF i >= Len(toks) THEN [result |-> <<>>, end |-> start]
       ELSE IF IsName(toks, i)
            THEN LET w == TypeWords(toks, i + 1, << Tk(toks, i) >>)
                     j == SkipWs(toks, w.i)
                 IN [result |-> w.result,
                     end |-> (IF IsOpen(toks, j) THEN ParenWalk(toks, j + 1, 1) ELSE w.i) - 1]
            ELSE [result |-> <<>>, end |-> i - 1]

RECURSIVE assembleTypeName(_)
\* strings.Join of the tokens' Value with " "
assembleTypeName(toks) ==
    IF toks = <<>> THEN ""
    ELSE IF Len(toks) = 1 THEN toks[1].Value
    ELSE toks[1].Value \o " " \o assembleTypeName(Tail(toks))

\* mapCastType maps a PG type to its SQLite equivalent for CAST.
mapCastType(pgType) ==
    LET upper == ToUpper(pgType)
    IN IF upper \in {"INTEGER", "INT", "INT4", "SMALLINT", "INT2", "BIGINT", "INT8"} THEN "INTEGER"
       ELSE IF upper \in {"REAL", "FLOAT4", "FLOAT8", "DOUBLE PRECISION", "NUMERIC", "DECIMAL"} THEN "REAL"
       ELSE IF upper \in {"TEXT", "VARCHAR", "CHARACTER VARYING", "CHAR", "CHARACTER", "UUID", "JSON",
                          "JSONB", "TIMESTAMP", "TIMESTAMP WITH TIME ZONE",
                          "TIMESTAMP WITHOUT TIME ZONE", "TIMESTAMPTZ", "DATE", "TIME",
                          "TIME WITH TIME ZONE", "TIMETZ", "INTERVAL"} THEN "TEXT"
       ELSE IF upper \in {"BOOLEAN", "BOOL"} THEN "INTEGER"
       ELSE IF upper = "BYTEA" THEN "BLOB"
       ELSE upper

RECURSIVE translateCastFrom(_, _, _)
translateCastFrom(toks, i, out) ==
    IF i >= Len(toks) THEN out
    ELSE IF IsTok(toks, i, TokOperator, "::")
         THEN LET j == extractLeftExpr(out)
                  ty == extractTypeName(toks, i + 1)
                  mappedType == mapCastType(assembleTypeName(ty.result))
              IN IF j < 0 THEN Panic
                 ELSE translateCastFrom(toks, ty.end + 1,
                        TSlice(out, 0, j) \o << Kw("CAST"), LP >> \o TSlice(out, j, Len(out))
                          \o << Sp, Kw("AS"), Sp, Id(mappedType), RP >>)
         ELSE translateCastFrom(toks, i + 1, Append(out, Tk(toks, i)))

\* translateCast converts expr::type to CAST(expr AS mapped_type).
translateCast(toks) == translateCastFrom(toks, 0, <<>>)

\* translateILIKE converts ILIKE to LIKE.
translateILIKE(toks) ==
    [ i \in 1..Len(toks) |-> IF toks[i].Kind = TokKeyword /\ toks[i].Value = "ILIKE"
                              THEN Kw("LIKE") ELSE toks[i] ]

\* translateBooleans converts TRUE -> 1, FALSE -> 0.
translateBooleans(toks) ==
    [ i \in 1..Len(toks) |->
        IF toks[i].Kind = TokKeyword /\ toks[i].Value = "TRUE" THEN Num("1")
        ELSE IF toks[i].Kind = TokKeyword /\ toks[i].Value = "FALSE" THEN Num("0")
        ELSE toks[i] ]

RECURSIVE resolveEscapes(_)
\* resolveEscapes processes backslash escape sequences.
resolveEscapes(s) ==
    IF s = "" THEN ""
    ELSE IF Head(s) = "\\" /\ Len(s) > 1
         THEN LET c == At(s, 1)
                  r == IF c = "n" THEN "\n" ELSE IF c = "t" THEN "\t" ELSE IF c = "r" THEN "\r"
                       ELSE IF c = "\\" THEN "\\" ELSE IF c = "'" THEN "'" ELSE "\\" \o c
              IN r \o resolveEscapes(Slice(s, 2, Len(s)))
         ELSE Head(s) \o resolveEscapes(Tail(s))

IsEString(t) == t.Kind = TokString /\ (HasPrefix(t.Raw, "E'") \/ HasPrefix(t.Raw, "e'"))

\* translateEscapeStrings: Raw[2 : len(Raw)-1] is out of range for the two-character Raw E'
translateEscapeStrings(toks) ==
    IF \E i \in 1..Len(toks) : IsEString(toks[i]) /\ Len(toks[i].Raw) - 1 < 2 THEN Panic
    ELSE [ i \in 1..Len(toks) |->
             IF IsEString(toks[i])
             THEN LET content == Slice(toks[i].Raw, 2, Len(toks[i].Raw) - 1)
                  IN Str("'" \o ReplaceAll(resolveEscapes(content), "'", "''") \o "'")
             ELSE toks[i] ]

RECURSIVE translateIsTrueFalseFrom(_, _, _)
translateIsTrueFalseFrom(toks, i, out) ==
    IF i >= Len(toks) THEN out
    ELSE IF ~IsKw(toks, i, "IS") THEN translateIsTrueFalseFrom(toks, i + 1, Append(out, Tk(toks, i)))
    ELSE LET j == SkipWs(toks, i + 1)
             k == SkipWs(toks, j + 1)
         IN IF IsKw(toks, j, "NOT") /\ IsKw(toks, k, "TRUE")
            THEN translateIsTrueFalseFrom(toks, k + 1, out \o << Op("!="), Sp, Num("1") >>)
            ELSE IF IsKw(toks, j, "NOT") /\ IsKw(toks, k, "FALSE")
            THEN translateIsTrueFalseFrom(toks, k + 1, out \o << Op("!="), Sp, Num("0") >>)
            ELSE IF IsKw(toks, j, "TRUE")
            THEN translateIsTrueFalseFrom(toks, j + 1, out \o << Op("="), Sp, Num("1") >>)
            ELSE IF IsKw(toks, j, "FALSE")
            THEN translateIsTrueFalseFrom(toks, j + 1, out \o << Op("="), Sp, Num("0") >>)
            ELSE translateIsTrueFalseFrom(toks, i + 1, Append(out, Tk(toks, i)))

\* translateIsTrueFalse converts IS [NOT] TRUE/FALSE to a comparison with 1/0.
translateIsTrueFalse(toks) == translateIsTrueFalseFrom(toks, 0, <<>>)

\* a translateExpressions that turns TRUE/FALSE into 1/0 before the IS forms
translateExpressionsBooleansFirst(toks) ==
    LET cast == translateCast(toks)
        esc == translateEscapeStrings(translateILIKE(cast))
    IN IF IsPanic(cast) THEN Panic
       ELSE IF IsPanic(esc) THEN Panic
       ELSE translateIsTrueFalse(translateBooleans(esc))

\* translateExpressions: ::cast, ILIKE, E'strings', IS TRUE/FALSE, TRUE/FALSE
translateExpressions(toks) ==
    LET cast == translateCast(toks)
        esc == translateEscapeStrings(translateILIKE(cast))
    IN IF IsPanic(cast) THEN Panic
       ELSE IF IsPanic(esc) THEN Panic
       ELSE translateBooleans(translateIsTrueFalse(esc))

---------------------------------------------------------------------------
(* Function passes (src/translate_func.go).                                *)

RECURSIVE trimTokenWhitespace(_)
\* trimTokenWhitespace removes leading and trailing whitespace tokens.
trimTokenWhitespace(toks) ==
    IF Len(toks) > 0 /\ toks[1].Kind = TokWhitespace THEN trimTokenWhitespace(Tail(toks))
    ELSE IF Len(toks) > 0 /\ toks[Len(toks)].Kind = TokWhitespace
         THEN trimTokenWhitespace(SubSeq(toks, 1, Len(toks) - 1))
         ELSE toks

RECURSIVE parseFuncArgsFrom(_, _, _, _, _)
parseFuncArgsFrom(toks, i, depth, current, args) ==
    IF i >= Len(toks) THEN [args |-> args, end |-> i - 1]
    ELSE LET t == Tk(toks, i) IN
         IF IsOpen(toks, i) /\ depth = 0 THEN parseFuncArgsFrom(toks, i + 1, 1, current, args)
         ELSE IF IsOpen(toks, i) THEN parseFuncArgsFrom(toks, i + 1, depth + 1, Append(current, t), args)
         ELSE IF IsClose(toks, i) /\ depth = 1
              THEN LET c == trimTokenWhitespace(current)
                   IN [args |-> IF Len(c) > 0 THEN Append(args, c) ELSE args, end |-> i]
         ELSE IF IsClose(toks, i) THEN parseFuncArgsFrom(toks, i + 1, depth - 1, Append(current, t), args)
         ELSE IF t.Kind = TokComma /\ depth = 1
              THEN parseFuncArgsFrom(toks, i + 1, depth, <<>>, Append(args, trimTokenWhitespace(current)))
         ELSE parseFuncArgsFrom(toks, i + 1, depth, Append(current, t), args)

\* parseFuncArgs: [args, end] from the open paren at openParen
parseFuncArgs(toks, openParen) == parseFuncArgsFrom(toks, openParen, 0, <<>>, <<>>)

\* extractStringLiteral: the Value of the first string token, or ""
extractStringLiteral(toks) ==
    IF \E i \in 1..Len(toks) : toks[i].Kind = TokString
    THEN toks[Min({ i \in 1..Len(toks) : toks[i].Kind = TokString })].Value
    ELSE ""

NowCall(name) == << Id(name), LP, Str("'now'"), RP >>

RECURSIVE translateNowFrom(_, _, _)
translateNowFrom(toks, i, out) ==
    IF i >= Len(toks) THEN out
    ELSE LET j == SkipWs(toks, i + 1)
             k == SkipWs(toks, j + 1)
         IN IF IsKw(toks, i, "NOW") /\ IsOpen(toks, j) /\ IsClose(toks, k)
            THEN translateNowFrom(toks, k + 1, out \o NowCall("datetime"))
            ELSE translateNowFrom(toks, i + 1, Append(out, Tk(toks, i)))

\* translateNow converts NOW() -> datetime('now').
translateNow(toks) == translateNowFrom(toks, 0, <<>>)

RECURSIVE translateCurrentDatetime(_)
\* CURRENT_DATE -> date('now'), CURRENT_TIME -> time('now'), CURRENT_TIMESTAMP -> datetime('now')
translateCurrentDatetime(toks) ==
    IF toks = <<>> THEN <<>>
    ELSE LET t == Head(toks)
             r == IF t.Kind = TokKeyword /\ t.Value = "CURRENT_DATE" THEN NowCall("date")
                  ELSE IF t.Kind = TokKeyword /\ t.Value = "CURRENT_TIME" THEN NowCall("time")
                  ELSE IF t.Kind = TokKeyword /\ t.Value = "CURRENT_TIMESTAMP" THEN NowCall("datetime")
                  ELSE << t >>
         IN r \o translateCurrentDatetime(Tail(toks))

\* strftimeCall builds: strftime(fmt, expr)
strftimeCall(format, expr) == << Id("strftime"), LP, Str(format), Cm, Sp >> \o expr \o << RP >>

\* dateTruncReplacement: the replacement for date_trunc, or <<>> for the source's nil
dateTruncReplacement(field0, expr) ==
    LET field == ToLower(Trim(field0, "'"))
    IN IF field = "day" THEN << Id("date"), LP >> \o expr \o << RP >>
       ELSE IF field = "hour" THEN strftimeCall("'%Y-%m-%d %H:00:00'", expr)
       ELSE IF field = "minute" THEN strftimeCall("'%Y-%m-%d %H:%M:00'", expr)
       ELSE IF field = "month" THEN strftimeCall("'%Y-%m-01'", expr)
       ELSE IF field = "year" THEN strftimeCall("'%Y-01-01'", expr)
       ELSE IF field = "second" THEN strftimeCall("'%Y-%m-%d %H:%M:%S'", expr)
       ELSE <<>>

\* a call  name ( args )  at tokens[i]: [ok, args, end]
FuncCall(toks, i) ==
    LET j == SkipWs(toks, i + 1)
    IN IF IsOpen(toks, j)
       THEN LET p == parseFuncArgs(toks, j) IN [ok |-> TRUE, args |-> p.args, end |-> p.end]
       ELSE [ok |-> FALSE, args |-> <<>>, end |-> i]

RECURSIVE translateDateTruncFrom(_, _, _)
translateDateTruncFrom(toks, i, out) ==
    IF i >= Len(toks) THEN out
    ELSE LET t == Tk(toks, i)
             c == FuncCall(toks, i)
             hit == t.Kind = TokIdent /\ ToLower(t.Value) = "date_trunc" /\ c.ok /\ Len(c.args) = 2
             replacement == dateTruncReplacement(extractStringLiteral(c.args[1]), c.args[2])
         IN IF hit /\ replacement # <<>>
            THEN translateDateTruncFrom(toks, c.end + 1, out \o replacement)
            ELSE translateDateTruncFrom(toks, i + 1, Append(out, t))

\* translateDateTrunc converts date_trunc('field', expr) to a date/strftime call.
translateDateTrunc(toks) == translateDateTruncFrom(toks, 0, <<>>)

\* an extractFieldFormat without the long names dayofweek and dayofyear
extractFieldFormatShortNames(field) ==
    IF field = "year" THEN "%Y" ELSE IF field = "month" THEN "%m"
    ELSE IF field = "day" THEN "%d" ELSE IF field = "hour" THEN "%H"
    ELSE IF field = "minute" THEN "%M" ELSE IF field = "second" THEN "%S"
    ELSE IF field = "dow" THEN "%w"
    ELSE IF field = "doy" THEN "%j"
    ELSE ""

\* extractFieldFormat returns the strftime format string for an EXTRACT field.
extractFieldFormat(field) ==
    IF field = "year" THEN "%Y" ELSE IF field = "month" THEN "%m"
    ELSE IF field = "day" THEN "%d" ELSE IF field = "hour" THEN "%H"
    ELSE IF field = "minute" THEN "%M" ELSE IF field = "second" THEN "%S"
    ELSE IF field \in {"dow", "dayofweek"} THEN "%w"
    ELSE IF field \in {"doy", "dayofyear"} THEN "%j"
    ELSE ""

\* CAST(strftime(fmt, expr) AS INTEGER)
CastStrftime(fmt, expr) ==
    << Kw("CAST"), LP >> \o strftimeCall("'" \o fmt \o "'", expr) \o << Sp, Kw("AS"), Sp, Kw("INTEGER"), RP >>

RECURSIVE ExtractExprEnd(_, _, _)
\* for m < len(tokens) && depth > 0 { ( depth++; ) depth--, break at 0; m++ }
ExtractExprEnd(toks, m, depth) ==
    IF m >= Len(toks) THEN m
    ELSE IF IsOpen(toks, m) THEN ExtractExprEnd(toks, m + 1, depth + 1)
    ELSE IF IsClose(toks, m) THEN (IF depth = 1 THEN m ELSE ExtractExprEnd(toks, m + 1, depth - 1))
    ELSE ExtractExprEnd(toks, m + 1, depth)

RECURSIVE TrimTrailingWs(_)
TrimTrailingWs(toks) ==
    IF Len(toks) > 0 /\ toks[Len(toks)].Kind = TokWhitespace
    THEN TrimTrailingWs(SubSeq(toks, 1, Len(toks) - 1)) ELSE toks

RECURSIVE translateExtractFrom(_, _, _)
translateExtractFrom(toks, i, out) ==
    IF i >= Len(toks) THEN out
    ELSE LET j == SkipWs(toks, i + 1)
             k == SkipWs(toks, j + 1)
             l == SkipWs(toks, k + 1)
             exprStart == SkipWs(toks, l + 1)
             m == ExtractExprEnd(toks, exprStart, 1)
             fmt == extractFieldFormat(ToLower(Tk(toks, k).Value))
         IN IF IsKw(toks, i, "EXTRACT") /\ IsOpen(toks, j) /\ IsName(toks, k)
               /\ IsKw(toks, l, "FROM") /\ fmt # ""
            THEN translateExtractFrom(toks, m + 1,
                    out \o CastStrftime(fmt, TrimTrailingWs(TSlice(toks, exprStart, m))))
            ELSE translateExtractFrom(toks, i + 1, Append(out, Tk(toks, i)))

\* translateExtract converts EXTRACT(field FROM expr) to CAST(strftime(fmt, expr) AS INTEGER).
translateExtract(toks) == translateExtractFrom(toks, 0, <<>>)

RECURSIVE translateLeftRightFrom(_, _, _)
translateLeftRightFrom(toks, i, out) ==
    IF i >= Len(toks) THEN out
    ELSE LET t == Tk(toks, i)
             lower == ToLower(t.Value)
             c == FuncCall(toks, i)
         IN IF IsName(toks, i) /\ lower \in {"left", "right"} /\ c.ok /\ Len(c.args) = 2
            THEN translateLeftRightFrom(toks, c.end + 1,
                    out \o << Id("substr"), LP >> \o c.args[1] \o << Cm, Sp >>
                        \o (IF lower = "left" THEN << Num("1"), Cm, Sp >> ELSE << Op("-") >>)
                        \o c.args[2] \o << RP >>)
            ELSE translateLeftRightFrom(toks, i + 1, Append(out, t))

\* translateLeftRight: left(str, n) -> substr(str, 1, n), right(str, n) -> substr(str, -n)
translateLeftRight(toks) == translateLeftRightFrom(toks, 0, <<>>)

RECURSIVE ConcatArgs(_, _)
ConcatArgs(args, ai) ==
    IF ai > Len(args) THEN <<>>
    ELSE (IF ai > 1 THEN << Sp, Op("||"), Sp >> ELSE <<>>)
         \o << Kw("COALESCE"), LP >> \o args[ai] \o << Cm, Str("''"), RP >>
         \o ConcatArgs(args, ai + 1)

RECURSIVE translateConcatFrom(_, _, _)
translateConcatFrom(toks, i, out) ==
    IF i >= Len(toks) THEN out
    ELSE LET t == Tk(toks, i)
             c == FuncCall(toks, i)
         IN IF t.Kind = TokIdent /\ ToLower(t.Value) = "concat" /\ c.ok /\ Len(c.args) > 0
            THEN translateConcatFrom(toks, c.end + 1, out \o << LP >> \o ConcatArgs(c.args, 1) \o << RP >>)
            ELSE translateConcatFrom(toks, i + 1, Append(out, t))

\* translateConcat: concat(a, b, ...) -> (COALESCE(a,'') || COALESCE(b,'') || ...)
translateConcat(toks) == translateConcatFrom(toks, 0, <<>>)

\* translateStringFuncs handles string function rewrites.
translateStringFuncs(toks) == translateConcat(translateLeftRight(toks))

runtimePatterns ==
    << "Mon", "Month", "mon", "month", "MON", "MONTH", "Day", "Dy", "day", "dy", "DAY", "DY",
       "AM", "PM", "am", "pm", "A.M.", "P.M.", "TZ", "tz", "OF", "Q", "TM" >>

replacerPairs ==
    << <<"YYYY", "%Y">>, <<"YY", "%y">>, <<"MM", "%m">>, <<"DD", "%d">>, <<"HH24", "%H">>,
       <<"HH12", "%I">>, <<"HH", "%H">>, <<"MI", "%M">>, <<"SS", "%S">> >>

RECURSIVE ReplacerReplace(_)
\* strings.NewReplacer(...).Replace: at each position the first pair, in argument order, that matches
ReplacerReplace(s) ==
    IF s = "" THEN ""
    ELSE LET hits == { p \in 1..Len(replacerPairs) : HasPrefix(s, replacerPairs[p][1]) }
         IN IF hits = {} THEN Head(s) \o ReplacerReplace(Tail(s))
            ELSE LET pr == replacerPairs[Min(hits)]
                 IN pr[2] \o ReplacerReplace(SubSeq(s, Len(pr[1]) + 1, Len(s)))

\* mapPGDateFormat: [fmt, ok]
mapPGDateFormat(pgFmt0) ==
    LET pgFmt == Trim(pgFmt0, "'")
    IN IF \E p \in 1..Len(runtimePatterns) : Contains(pgFmt, runtimePatterns[p])
       THEN [fmt |-> "", ok |-> FALSE]
       ELSE [fmt |-> ReplacerReplace(pgFmt), ok |-> TRUE]

\* one iteration of translateAggFuncs at tokens[i]: [out, i]
translateAggFuncsStep(toks, i, out) ==
    LET t == Tk(toks, i)
        lower == ToLower(t.Value)
        c == FuncCall(toks, i)
        keep == [out |-> Append(out, t), i |-> i]
    IN IF t.Kind # TokIdent THEN keep
       ELSE IF lower = "string_agg" THEN [out |-> Append(out, Id("group_concat")), i |-> i]
       ELSE IF lower = "array_agg" THEN [out |-> Append(out, Id("json_group_array")), i |-> i]
       ELSE IF lower = "date_part" /\ c.ok /\ Len(c.args) = 2 THEN
            LET fmt == extractFieldFormat(ToLower(Trim(extractStringLiteral(c.args[1]), "'")))
            IN IF fmt # "" THEN [out |-> out \o CastStrftime(fmt, c.args[2]), i |-> c.end] ELSE keep
       ELSE IF lower = "to_char" /\ c.ok /\ Len(c.args) = 2 THEN
            LET m == mapPGDateFormat(extractStringLiteral(c.args[2]))
            IN IF m.ok /\ m.fmt # ""
               THEN [out |-> out \o << Id("strftime"), LP, Str("'" \o m.fmt \o "'"), Cm, Sp >>
                                 \o c.args[1] \o << RP >>, i |-> c.end]
               ELSE [out |-> out \o << Id("pg_to_char"), LP >> \o c.args[1] \o << Cm, Sp >>
                                 \o c.args[2] \o << RP >>, i |-> c.end]
       ELSE keep

RECURSIVE translateAggFuncsFrom(_, _, _)
translateAggFuncsFrom(toks, i, out) ==
    IF i >= Len(toks) THEN out
    ELSE LET r == translateAggFuncsStep(toks, i, out) IN translateAggFuncsFrom(toks, r.i + 1, r.out)

\* translateAggFuncs: string_agg, array_agg, date_part, to_char
translateAggFuncs(toks) == translateAggFuncsFrom(toks, 0, <<>>)

\* translateFunctions: NOW(), CURRENT_*, date_trunc(), EXTRACT(), string and aggregate functions
translateFunctions(toks) ==
    translateAggFuncs(translateStringFuncs(translateExtract(translateDateTrunc(
        translateCurrentDatetime(translateNow(toks))))))

---------------------------------------------------------------------------
(* NULLS FIRST / NULLS LAST (src/translate_order.go) and parameters.       *)

\* for pos > 0 && out[pos-1].Kind == TokWhitespace { pos-- }
SkipWsBack(out, pos) ==
    Max({ p \in 0..pos : p = 0 \/ Tk(out, p - 1).Kind # TokWhitespace })

\* a findColumnExprStart that does not walk back past  table.
findColumnExprStartNoTable(toks, pos) ==
    IF pos = 0 THEN pos
    ELSE LET end == pos - 1 IN
         IF IsClose(toks, end)
         THEN LET p == WalkBack(toks, end - 1, 1)
              IN IF p > 0 /\ IsName(toks, p - 1) THEN p - 1 ELSE p
         ELSE IF IsName(toks, end) THEN end
         ELSE pos

\* findColumnExprStart: the start index of the column expression that ends before pos
findColumnExprStart(toks, pos) ==
    IF pos = 0 THEN pos
    ELSE LET end == pos - 1 IN
         IF IsClose(toks, end)
         THEN LET p == WalkBack(toks, end - 1, 1)
              IN IF p > 0 /\ IsName(toks, p - 1) THEN p - 1 ELSE p
         ELSE IF IsName(toks, end)
         THEN (IF end >= 2 /\ IsKind(toks, end - 1, TokDot) /\ IsName(toks, end - 2)
               THEN end - 2 ELSE end)
         ELSE pos

NullsCase(col, thenVal, elseVal) ==
    << LP, Kw("CASE"), Sp, Kw("WHEN"), Sp >> \o col
      \o << Sp, Kw("IS"), Sp, Kw("NULL"), Sp, Kw("THEN"), Sp, Num(thenVal), Sp, Kw("ELSE"), Sp,
            Num(elseVal), Sp, Kw("END"), RP, Cm, Sp >> \o col

RECURSIVE translateNullsOrderingFrom(_, _, _)
translateNullsOrderingFrom(toks, i, out) ==
    IF i >= Len(toks) THEN out
    ELSE LET j == SkipWs(toks, i + 1)
             keep == translateNullsOrderingFrom(toks, i + 1, Append(out, Tk(toks, i)))
         IN IF ~IsKw(toks, i, "NULLS") THEN keep
            ELSE IF ~(IsKw(toks, j, "FIRST") \/ IsKw(toks, j, "LAST")) THEN keep
            ELSE LET nullsFirst == IsKw(toks, j, "FIRST")
                     pos0 == SkipWsBack(out, Len(out))
                     hasDir == pos0 > 0 /\ (IsKw(out, pos0 - 1, "ASC") \/ IsKw(out, pos0 - 1, "DESC"))
                     colEnd == IF hasDir THEN SkipWsBack(out, pos0 - 1) ELSE pos0
                     colStart == findColumnExprStart(out, colEnd)
                     col == TSlice(out, colStart, colEnd)
                 IN IF colStart = colEnd THEN keep
                    ELSE IF colStart < 0 THEN Panic
                    ELSE translateNullsOrderingFrom(toks, j + 1,
                            TSlice(out, 0, colStart)
                              \o NullsCase(col, IF nullsFirst THEN "0" ELSE "1",
                                                IF nullsFirst THEN "1" ELSE "0")
                              \o (IF hasDir THEN << Sp, Tk(out, pos0 - 1) >> ELSE <<>>))

\* translateNullsOrdering rewrites NULLS FIRST / NULLS LAST in ORDER BY clauses.
translateNullsOrdering(toks) == translateNullsOrderingFrom(toks, 0, <<>>)

\* translateParams converts $1, $2, ... to ? placeholders.
translateParams(toks) ==
    [ i \in 1..Len(toks) |-> IF toks[i].Kind = TokParam THEN Op("?") ELSE toks[i] ]

\* the token list Translate hands to Reassemble for the input s, or Panic
TranslateTokens(s) ==
    LET expr == translateExpressions(translateDDL(Tokenize(s)))
        nulls == translateNullsOrdering(translateFunctions(expr))
    IN IF IsPanic(expr) THEN Panic
       ELSE IF IsPanic(nulls) THEN Panic
       ELSE translateParams(nulls)

---------------------------------------------------------------------------
(* Translate (src/translate.go) as a state machine: one step per statement *)
(* of its body.  sql is the argument, tokens the local variable, result    *)
(* the returned text.  A caller may hand the result back to Translate:     *)
(* round counts the calls and prev keeps the result of the call before.    *)

MaxRounds == 2

MaxFrags == 3

RECURSIVE Concats(_, _)
\* the concatenations of at most n fragments of the sequence F
Concats(F, n) ==
    IF n = 0 THEN {""}
    ELSE LET S == Concats(F, n - 1) IN S \cup { s \o F[k] : s \in S, k \in 1..Len(F) }

\* no connection is open
DriverOff ==
    seqs = {} /\ cst = <<>> /\ got = <<>> /\ script = <<>> /\ innerCtx = FALSE

Start ==
    pc = "Tokenize" /\ tokens = <<>> /\ result = "" /\ round = 1 /\ prev = "" /\ DriverOff

TokenizeStep ==
    /\ pc = "Tokenize"
    /\ tokens' = Tokenize(sql)
    /\ pc' = "translateDDL"
    /\ UNCHANGED <<sql, result, round, prev>>
    /\ UNCHANGED dvars

DDLStep ==
    /\ pc = "translateDDL"
    /\ tokens' = translateDDL(tokens)
    /\ pc' = "translateExpressions"
    /\ UNCHANGED <<sql, result, round, prev>>
    /\ UNCHANGED dvars

\* translateCast and translateEscapeStrings can slice out of range: the goroutine panics
ExpressionsStep ==
    /\ pc = "translateExpressions"
    /\ LET t == translateExpressions(tokens)
       IN IF IsPanic(t) THEN pc' = "panic" /\ tokens' = tokens
          ELSE pc' = "translateFunctions" /\ tokens' = t
    /\ UNCHANGED <<sql, result, round, prev>>
    /\ UNCHANGED dvars

FunctionsStep ==
    /\ pc = "translateFunctions"
    /\ tokens' = translateFunctions(tokens)
    /\ pc' = "translateNullsOrdering"
    /\ UNCHANGED <<sql, result, round, prev>>
    /\ UNCHANGED dvars

\* translateNullsOrdering can slice out of range: the goroutine panics
NullsOrderingStep ==
    /\ pc = "translateNullsOrdering"
    /\ LET t == translateNullsOrdering(tokens)
       IN IF IsPanic(t) THEN pc' = "panic" /\ tokens' = tokens
          ELSE pc' = "translateParams" /\ tokens' = t
    /\ UNCHANGED <<sql, result, round, prev>>
    /\ UNCHANGED dvars

ParamsStep ==
    /\ pc = "translateParams"
    /\ tokens' = translateParams(tokens)
    /\ pc' = "Reassemble"
    /\ UNCHANGED <<sql, result, round, prev>>
    /\ UNCHANGED dvars

ReassembleStep ==
    /\ pc = "Reassemble"
    /\ result' = Reassemble(tokens)
    /\ pc' = "return"
    /\ UNCHANGED <<sql, tokens, round, prev>>
    /\ UNCHANGED dvars

\* the caller translates the text it got back
TranslateAgain ==
    /\ pc = "return"
    /\ round < MaxRounds
    /\ sql' = result
    /\ prev' = result
    /\ round' = round + 1
    /\ pc' = "Tokenize"
    /\ tokens' = <<>>
    /\ result' = ""
    /\ UNCHANGED dvars

Next ==
    \/ TokenizeStep
    \/ DDLStep
    \/ ExpressionsStep
    \/ FunctionsStep
    \/ NullsOrderingStep
    \/ ParamsStep
    \/ ReassembleStep
    \/ TranslateAgain

(* Lexical inputs: quotes, escapes, dollar signs, comments.                *)
LexFrags ==
    << "E'", "'", "a", "$", "$$", "$t$", "1", " ", "\\", "--", "\n", "/*", "*/", "\"", "by" >>

LexInputs == Concats(LexFrags, MaxFrags)

InitLex == sql \in LexInputs /\ Start

SpecLex == InitLex /\ [][Next]_vars

(* Expression inputs: casts, parameters, parentheses, NULLS ordering,      *)
(* function calls, type names, plain text with comments.                   *)
ExprFrags ==
    << "SELECT", "select ", " ", "x", "(a)", "(", ")", "$1", "?", "'s'", "::int",
       "::numeric(10,2)", " NULLS FIRST", " DESC", "f($1)", "VARCHAR", "left((a),2)",
       "NOW()", "-- c\n", "," >>

ExprInputs == Concats(ExprFrags, MaxFrags)

InitExpr == sql \in ExprInputs /\ Start

SpecExpr == InitExpr /\ [][Next]_vars

(* Column definitions: a column name and up to MaxFrags clauses.           *)
ColFrags ==
    << " SERIAL", " BIGSERIAL", " SMALLSERIAL", " PRIMARY KEY", " NOT NULL", " UNIQUE",
       " CONSTRAINT pk", " DEFAULT", " NOW()", " CURRENT_TIMESTAMP", " CURRENT_DATE",
       " CURRENT_TIME", " 0", "," >>

ColInputs == { "id" \o c : c \in Concats(ColFrags, MaxFrags) }

InitDDL == sql \in ColInputs /\ Start

SpecDDL == InitDDL /\ [][Next]_vars

\* column types as written in PostgreSQL DDL: the keywords translateTypes
\* switches on and the keys of pgTypeToSQLite, with and without a suffix
TypeTexts ==
    << "SMALLINT", "INT2", "INT4", "INT8", "BIGINT", "BOOLEAN", "BOOL", "bool",
       "VARCHAR", "VARCHAR(10)", "varchar (10)", "CHAR", "CHAR(10)",
       "CHARACTER", "CHARACTER(10)", "CHARACTER VARYING", "CHARACTER VARYING(10)",
       "Character  Varying (10)", "TEXT", "UUID", "JSON", "JSONB", "DATE",
       "TIME", "TIME WITH TIME ZONE", "TIME WITHOUT TIME ZONE",
       "TIMESTAMP", "TIMESTAMP WITH TIME ZONE", "TIMESTAMP WITHOUT TIME ZONE",
       "timestamp  with time\nzone", "TIMESTAMPTZ", "TIMETZ", "INTERVAL",
       "REAL", "FLOAT4", "FLOAT8", "DOUBLE PRECISION", "double  precision",
       "NUMERIC", "NUMERIC(10,2)", "NUMERIC(10)", "numeric (10, 2)",
       "DECIMAL", "DECIMAL(10,2)", "BYTEA" >>

\* a two-column list  (c <type> NOT NULL, d <type>)
TypeColumns(t1, t2) == "(c " \o t1 \o " NOT NULL, d " \o t2 \o ")"

TypeInputs ==
    { TypeColumns(TypeTexts[a], TypeTexts[b]) : a, b \in 1..Len(TypeTexts) }

InitTypes == sql \in TypeInputs /\ Start

SpecTypes == InitTypes /\ [][Next]_vars

\* dollar-quoted literals  $tag$body$tag$  inside a statement
DollarTags == << "", "t", "_a1", "Fn" >>

DollarBodies ==
    << "", "a", "it's", "'", "''", "$1", "a$b", "a$", "SELECT 1", "E'x'", "--c", "\\", "/*", "\n" >>

DollarPrefixes == << "", "SELECT ", "(", "x = " >>

DollarSuffixes == << "", ")", " x", ";" >>

DollarLiteral(tag, body) == "$" \o tag \o "$" \o body \o "$" \o tag \o "$"

DollarInputs ==
    { DollarPrefixes[p] \o DollarLiteral(DollarTags[t], DollarBodies[b]) \o DollarSuffixes[s] :
        p \in 1..Len(DollarPrefixes), t \in 1..Len(DollarTags),
        b \in 1..Len(DollarBodies), s \in 1..Len(DollarSuffixes) }

InitDollar == sql \in DollarInputs /\ Start

SpecDollar == InitDollar /\ [][Next]_vars

\* E-strings inside a statement: the text between the quotes, and whether the
\* closing quote is there
EscContents ==
    << "", "a", "abc", "a\\nb", "\\t", "\\r", "\\\\", "\\'", "it\\'s", "\\x", "\\\\n", "100%", "a b" >>

EscMarks == << "E", "e" >>

EscPrefixes == << "", "SELECT ", "x = ", "(" >>

EscSuffixes == << "", " y", ")" >>

EscInputs ==
    { EscPrefixes[p] \o EscMarks[m] \o "'" \o EscContents[c] \o "'" \o EscSuffixes[s] :
        p \in 1..Len(EscPrefixes), m \in 1..Len(EscMarks),
        c \in 1..Len(EscContents), s \in 1..Len(EscSuffixes) }
    \cup
    { EscPrefixes[p] \o EscMarks[m] \o "'" \o EscContents[c] :
        p \in 1..Len(EscPrefixes), m \in 1..Len(EscMarks), c \in 1..Len(EscContents) }

InitEsc == sql \in EscInputs /\ Start

SpecEsc == InitEsc /\ [][Next]_vars

\* boolean tests: an operand, a gap, an IS form, the rest of the statement
IsOperands == << "x", "t.c", "(a)", "f(x)", "\"q\"", "1" >>

IsGaps == << " ", "  ", "\n" >>

\* the IS forms as written, with the comparison each is to become ("" = unchanged)
IsForms ==
    << <<"IS TRUE", "= 1">>, <<"IS FALSE", "= 0">>,
       <<"IS NOT TRUE", "!= 1">>, <<"IS NOT FALSE", "!= 0">>,
       <<"is true", "= 1">>, <<"Is  Not\nFalse", "!= 0">>, <<"IS\tFALSE", "= 0">>,
       <<"is  not true", "!= 1">>,
       <<"IS NULL", "">>, <<"IS NOT NULL", "">>, <<"is  not null", "">>, <<"is null", "">> >>

IsRests == << "", " AND y", ")", " = TRUE", " OR FALSE", ";" >>

IsInputs ==
    { IsOperands[e] \o IsGaps[g] \o IsForms[f][1] \o IsRests[r] :
        e \in 1..Len(IsOperands), g \in 1..Len(IsGaps), f \in 1..Len(IsForms), r \in 1..Len(IsRests) }

InitIs == sql \in IsInputs /\ Start

SpecIs == InitIs /\ [][Next]_vars

\* ORDER BY lists of one or two sort keys: a column, a direction, a NULLS clause
OrderCols == << "a", "t.c", "LOWER(name)", "f(g(x), 1)" >>

\* the direction as written, and as it is emitted again
OrderDirs == << <<"", "">>, <<" ASC", " ASC">>, <<"  desc", " desc">> >>

\* the NULLS clause as written, with THEN and ELSE of its CASE ("" = no clause)
OrderNulls ==
    << <<"", "", "">>, <<" NULLS FIRST", "0", "1">>, <<" NULLS LAST", "1", "0">>,
       <<"  nulls\nlast", "1", "0">> >>

OrderKey(c, d, n) == OrderCols[c] \o OrderDirs[d][1] \o OrderNulls[n][1]

OrderKeys ==
    { OrderKey(c, d, n) : c \in 1..Len(OrderCols), d \in 1..Len(OrderDirs), n \in 1..Len(OrderNulls) }

OrderInputs ==
    { "ORDER BY " \o k : k \in OrderKeys }
    \cup { "ORDER BY " \o k1 \o ", " \o k2 : k1, k2 \in OrderKeys }

InitOrder == sql \in OrderInputs /\ Start

SpecOrder == InitOrder /\ [][Next]_vars

\* EXTRACT and date_part calls: the field as written with its strftime format
\* ("" = no format), the argument as written and as the other passes leave it
PartFields ==
    << <<"year", "%Y">>, <<"MONTH", "%m">>, <<"Day", "%d">>, <<"hour", "%H">>,
       <<"minute", "%M">>, <<"second", "%S">>, <<"dow", "%w">>, <<"dayofweek", "%w">>,
       <<"doy", "%j">>, <<"DAYOFYEAR", "%j">>,
       <<"epoch", "">>, <<"week", "">>, <<"quarter", "">>, <<"years", "">> >>

PartArgs ==
    << <<"x", "x">>, <<"t.c", "t.c">>, <<"f(a, b)", "f(a, b)">>,
       <<"NOW()", "datetime('now')">>, <<"$1", "?">>, <<"(a)", "(a)">> >>

\* the four ways a call is written: two of EXTRACT, two of date_part
PartCall(shape, f, e) ==
    IF shape = 1 THEN "EXTRACT(" \o f \o " FROM " \o e \o ")"
    ELSE IF shape = 2 THEN "extract ( " \o f \o "  from  " \o e \o " )"
    ELSE IF shape = 3 THEN "date_part('" \o f \o "', " \o e \o ")"
    ELSE "DATE_PART( '" \o f \o "' ," \o e \o " )"

PartRests == << "", " FROM t" >>

PartInputs ==
    { "SELECT " \o PartCall(shape, PartFields[f][1], PartArgs[e][1]) \o PartRests[r] :
        shape \in 1..4, f \in 1..Len(PartFields), e \in 1..Len(PartArgs), r \in 1..Len(PartRests) }

InitPart == sql \in PartInputs /\ Start

SpecPart == InitPart /\ [][Next]_vars

\* to_char calls: the format literal with the strftime format it maps to, or ""
\* when it holds a pattern only the run-time helper can format
CharFormats ==
    << <<"YYYY-MM-DD", "%Y-%m-%d">>, <<"HH24:MI:SS", "%H:%M:%S">>, <<"YY", "%y">>,
       <<"HH12", "%I">>, <<"HH", "%H">>, <<"YYYY", "%Y">>, <<"DD/MM/YY", "%d/%m/%y">>,
       <<"MMDDYYYY", "%m%d%Y">>,
       <<"DD Mon YYYY", "">>, <<"Month", "">>, <<"MONTH", "">>, <<"Day", "">>, <<"dy", "">>,
       <<"HH12:MI AM", "">>, <<"HH:MI pm", "">>, <<"HH:MI P.M.", "">>, <<"HH:MI a.m.", "">>,
       <<"HH24 TZ", "">>, <<"HH24 OF", "">>, <<"YYYY Q", "">>, <<"TMDay", "">> >>

CharArgs == << "x", "t.c", "f(a, b)" >>

CharCall(shape, e, f) ==
    IF shape = 1 THEN "to_char(" \o e \o ", '" \o f \o "')"
    ELSE "TO_CHAR( " \o e \o " ,'" \o f \o "' )"

CharRests == << "", " FROM t", ", 1" >>

CharInputs ==
    { "SELECT " \o CharCall(shape, CharArgs[e], CharFormats[f][1]) \o CharRests[r] :
        shape \in 1..2, e \in 1..Len(CharArgs), f \in 1..Len(CharFormats), r \in 1..Len(CharRests) }

InitChar == sql \in CharInputs /\ Start

SpecChar == InitChar /\ [][Next]_vars

\* interval arithmetic: the left operand as written and as the other passes
\* leave it, the interval as written with its amount and unit
IntervalExprs ==
    << <<"ts", "ts">>, <<"t.c", "t.c">>, <<"NOW()", "datetime('now')">> >>

IntervalForms ==
    << <<"INTERVAL '1 day'", "1 day">>, <<"INTERVAL '2 hours'", "2 hours">>,
       <<"interval '30 minutes'", "30 minutes">>, <<"INTERVAL '1' DAY", "1 day">>,
       <<"INTERVAL '3' months", "3 months">> >>

IntervalSigns == << "+", "-" >>

IntervalRests == << "", " FROM t" >>

IntervalInputs ==
    { "SELECT " \o IntervalExprs[e][1] \o " " \o IntervalSigns[s] \o " " \o IntervalForms[f][1]
        \o IntervalRests[r] :
        e \in 1..Len(IntervalExprs), s \in 1..Len(IntervalSigns),
        f \in 1..Len(IntervalForms), r \in 1..Len(IntervalRests) }

InitInterval == sql \in IntervalInputs /\ Start

SpecInterval == InitInterval /\ [][Next]_vars


\* generate_series in a FROM clause: bounds, optional step ("" = none) and alias
SeriesStarts == << "1", "0" >>

SeriesStops == << "5", "10" >>

SeriesSteps == << "", "2" >>

SeriesAliases == << "", " AS s", " g", " AS s WHERE s > 1" >>

SeriesCols == << "*", "s" >>

SeriesCall(a, b, st) ==
    "generate_series(" \o a \o ", " \o b \o (IF st = "" THEN "" ELSE ", " \o st) \o ")"

SeriesInputs ==
    { "SELECT " \o SeriesCols[c] \o " FROM "
        \o SeriesCall(SeriesStarts[a], SeriesStops[b], SeriesSteps[st]) \o SeriesAliases[al] :
        c \in 1..Len(SeriesCols), a \in 1..Len(SeriesStarts), b \in 1..Len(SeriesStops),
        st \in 1..Len(SeriesSteps), al \in 1..Len(SeriesAliases) }

InitSeries == sql \in SeriesInputs /\ Start

SpecSeries == InitSeries /\ [][Next]_vars


\* regular-expression matches: the operator with the prefix and flag of its
\* rewrite, both operands as written and as the other passes leave them
RegexOps ==
    << <<"~", "", "0">>, <<"~*", "", "1">>, <<"!~", "NOT ", "0">>, <<"!~*", "NOT ", "1">> >>

RegexLefts == << <<"name", "name">>, <<"t.c", "t.c">>, <<"$1", "?">> >>

RegexRights == << <<"'^foo'", "'^foo'">>, <<"pat", "pat">>, <<"$2", "?">> >>

RegexGaps == << " ", "" >>

RegexInputs ==
    { "SELECT * FROM t WHERE " \o RegexLefts[l][1] \o RegexGaps[g] \o RegexOps[o][1]
        \o RegexGaps[g] \o RegexRights[r][1] :
        l \in 1..Len(RegexLefts), g \in 1..Len(RegexGaps), o \in 1..Len(RegexOps),
        r \in 1..Len(RegexRights) }

InitRegex == sql \in RegexInputs /\ Start

SpecRegex == InitRegex /\ [][Next]_vars


\* CREATE SEQUENCE statements: the options as written with the seed and the
\* increment of the row to insert
SequenceOptions ==
    << <<"", "0", "1">>, <<" INCREMENT BY 5", "0", "5">>, <<" INCREMENT 2", "0", "2">>,
       <<" START WITH 100", "99", "1">>, <<" START 10", "9", "1">>,
       <<" INCREMENT BY 5 START WITH 100", "95", "5">>,
       <<" START WITH 10 INCREMENT BY 2", "8", "2">>,
       <<" START WITH 0 INCREMENT BY 5", "-5", "5">> >>

SequenceNames == << "my_seq", "s" >>

SequenceHeads == << "CREATE SEQUENCE ", "create  sequence " >>

SequenceInputs ==
    { SequenceHeads[h] \o SequenceNames[n] \o SequenceOptions[o][1] :
        h \in 1..Len(SequenceHeads), n \in 1..Len(SequenceNames), o \in 1..Len(SequenceOptions) }

InitSequence == sql \in SequenceInputs /\ Start

SpecSequence == InitSequence /\ [][Next]_vars


---------------------------------------------------------------------------
(* The driver (package pglike, registered as "pglike"): conn and stmt wrap *)
(* a SQLite connection and statement.  A connection's caller makes the     *)
(* calls of its script one after the other and stops at the first error.   *)
(* The engine runs one statement at a time; between two statements of one  *)
(* connection another connection may run its own.                          *)

\* strings.Index
StrIndex(s, p) ==
    IF Contains(s, p)
    THEN CHOOSE i \in 0..Len(s) : MatchAt(s, i, p) /\ \A j \in 0..(i - 1) : ~MatchAt(s, j, p)
    ELSE -1

DecimalDigits == "0123456789"

RECURSIVE Sprintd(_)
\* fmt.Sprintf("%d", n)
Sprintd(n) ==
    IF n < 0 THEN "-" \o Sprintd(0 - n)
    ELSE IF n < 10 THEN SubSeq(DecimalDigits, n + 1, n + 1)
    ELSE Sprintd(n \div 10) \o SubSeq(DecimalDigits, (n % 10) + 1, (n % 10) + 1)

RECURSIVE DecimalValue(_)
\* the integer a run of decimal digits, with an optional sign, denotes
DecimalValue(s) ==
    IF s = "" THEN 0
    ELSE IF Head(s) = "-" THEN 0 - DecimalValue(Tail(s))
    ELSE 10 * DecimalValue(SubSeq(s, 1, Len(s) - 1))
           + (IndexIn(SubSeq(s, Len(s), Len(s)), DecimalDigits) - 1)

IsDecimal(s) ==
    /\ s # ""
    /\ LET d == IF Head(s) = "-" THEN Tail(s) ELSE s
       IN d # "" /\ \A i \in 1..Len(d) : IsDigit(SubSeq(d, i, i))

\* Translate as a function of the statement text
Translate(s) == Reassemble(TranslateTokens(s))

\* an error value: its message, whether it is a *PGError, and its SQLSTATE
NoError == [msg |-> "", pg |-> FALSE, code |-> ""]

EngineError(m) == [msg |-> m, pg |-> FALSE, code |-> ""]

\* io.EOF, which rows.Next returns when the query has no row
EOF == EngineError("EOF")

\* classifySQLiteError without the lower-casing of the message
classifySQLiteErrorCaseSensitive(msg) ==
    IF Contains(msg, "unique constraint") \/ Contains(msg, "unique_constraint")
    THEN "23505"
    ELSE IF Contains(msg, "not null constraint") \/ Contains(msg, "not_null_constraint")
    THEN "23502"
    ELSE IF Contains(msg, "foreign key constraint") \/ Contains(msg, "foreign_key_constraint")
    THEN "23503"
    ELSE IF Contains(msg, "check constraint") \/ Contains(msg, "check_constraint")
    THEN "23514"
    ELSE IF Contains(msg, "no such table") \/ Contains(msg, "no_such_table")
    THEN "42P01"
    ELSE IF Contains(msg, "no such column") \/ Contains(msg, "no_such_column")
    THEN "42703"
    ELSE IF Contains(msg, "syntax error")
    THEN "42601"
    ELSE "XX000"


\* classifySQLiteError maps a SQLite error message to a PG SQLSTATE code.
classifySQLiteError(msg) ==
    LET lower == ToLower(msg)
    IN IF Contains(lower, "unique constraint") \/ Contains(lower, "unique_constraint")
       THEN "23505"
       ELSE IF Contains(lower, "not null constraint") \/ Contains(lower, "not_null_constraint")
       THEN "23502"
       ELSE IF Contains(lower, "foreign key constraint") \/ Contains(lower, "foreign_key_constraint")
       THEN "23503"
       ELSE IF Contains(lower, "check constraint") \/ Contains(lower, "check_constraint")
       THEN "23514"
       ELSE IF Contains(lower, "no such table") \/ Contains(lower, "no_such_table")
       THEN "42P01"
       ELSE IF Contains(lower, "no such column") \/ Contains(lower, "no_such_column")
       THEN "42703"
       ELSE IF Contains(lower, "syntax error")
       THEN "42601"
       ELSE "XX000"

\* wrapError wraps a SQLite error with a PG-compatible error code.
wrapError(err) ==
    IF err = NoError THEN NoError
    ELSE [msg |-> err.msg, pg |-> TRUE, code |-> classifySQLiteError(err.msg)]

\* extractSeqName extracts a sequence name from 'name') starting at pos.
extractSeqName(s, pos) ==
    LET fail == [ok |-> FALSE, name |-> "", end |-> 0]
    IN IF pos >= Len(s) \/ At(s, pos) # "'" THEN fail
       ELSE LET e == StrIndex(Slice(s, pos + 1, Len(s)), "'")
                closePos == pos + 1 + e + 1
            IN IF e = -1 THEN fail
               ELSE IF closePos >= Len(s) \/ At(s, closePos) # ")" THEN fail
               ELSE [ok |-> TRUE, name |-> Slice(s, pos + 1, pos + 1 + e), end |-> closePos + 1]

\* the first call fn'name') of query that resolveSequenceCalls finds, fn being
\* "nextval(" or "currval(": its place, its name and where it ends
SeqCall(query, fn) ==
    LET idx == StrIndex(query, fn)
    IN IF idx = -1 THEN [ok |-> FALSE, idx |-> 0, name |-> "", end |-> 0]
       ELSE LET x == extractSeqName(query, idx + Len(fn))
            IN [ok |-> x.ok, idx |-> idx, name |-> x.name, end |-> x.end]

\* query[:idx] + fmt.Sprintf("%d", val) + query[end:]
Substitute(query, call, val) ==
    Slice(query, 0, call.idx) \o Sprintd(val) \o Slice(query, call.end, Len(query))


(* The SQLite engine under the driver, as far as the statements of the     *)
(* callers need it: the _sequences table that Open creates, the statements *)
(* the engine cannot compile, and the errors a statement can end with.     *)

HasSeq(tbl, name) == \E r \in tbl : r.name = name

SeqRow(tbl, name) == CHOOSE r \in tbl : r.name = name

\* UPDATE _sequences SET current_value = current_value + increment WHERE name = 'name'
UpdateSeq(tbl, name) ==
    { IF r.name = name THEN [r EXCEPT !.cur = r.cur + r.inc] ELSE r : r \in tbl }

InsertPrefix == "INSERT OR IGNORE INTO _sequences (name, current_value, increment) VALUES ('"

\* the row of  INSERT OR IGNORE INTO _sequences (...) VALUES ('name', cur, inc)
InsertedRow(text) ==
    LET rest == Slice(text, Len(InsertPrefix), Len(text))
        q == StrIndex(rest, "'")
        rest2 == Slice(rest, q + 3, Len(rest))
        c == StrIndex(rest2, ",")
        rest3 == Slice(rest2, c + 2, Len(rest2))
        p == StrIndex(rest3, ")")
    IN [name |-> Slice(rest, 0, q), cur |-> DecimalValue(Slice(rest2, 0, c)),
        inc |-> DecimalValue(Slice(rest3, 0, p))]

\* what a statement that ran without error leaves in the table
EngineEffect(tbl, text) ==
    IF HasPrefix(text, InsertPrefix) /\ ~HasSeq(tbl, InsertedRow(text).name)
    THEN tbl \cup {InsertedRow(text)}
    ELSE tbl

\* the error of compiling a statement, "" if it compiles: SQLite has no CREATE
\* SEQUENCE, the package registers no function nextval or currval, and the
\* callers' database has no table named missing
sqlitePrepare(text) ==
    IF HasPrefix(ToUpper(text), "CREATE SEQUENCE") THEN "near \"SEQUENCE\": syntax error"
    ELSE IF Contains(text, "nextval(") THEN "no such function: nextval"
    ELSE IF Contains(text, "currval(") THEN "no such function: currval"
    ELSE IF Contains(text, "FROM missing") THEN "no such table: missing"
    ELSE ""

\* the errors running a compiled statement can end with, "" for none: which
\* one depends on the rows of the callers' tables and on other connections
sqliteStep(text) ==
    IF HasPrefix(text, "INSERT INTO t")
    THEN {"", "constraint failed: UNIQUE constraint failed: t.id (1555)",
          "constraint failed: NOT NULL constraint failed: t.name (1299)"}
    ELSE IF HasPrefix(text, "SELECT x FROM t")
    THEN {"", "database is locked (5) (SQLITE_BUSY)"}
    ELSE {""}

\* the first column of the first row of  SELECT n
sqliteValue(text) ==
    IF HasPrefix(text, "SELECT ") /\ IsDecimal(Slice(text, 7, Len(text)))
    THEN DecimalValue(Slice(text, 7, Len(text)))
    ELSE 0

\* the outcomes of compiling and running a statement: error and value
EngineRun(text) ==
    IF sqlitePrepare(text) # ""
    THEN {[err |-> EngineError(sqlitePrepare(text)), val |-> 0]}
    ELSE {[err |-> IF e = "" THEN NoError ELSE EngineError(e),
           val |-> IF e = "" THEN sqliteValue(text) ELSE 0] : e \in sqliteStep(text)}


(* The entry points of conn and stmt.  cst[c] holds the position of        *)
(* connection c: pc ("idle" between calls, then the place inside the       *)
(* handler), ip the next call of the script, text the statement the        *)
(* handler works on, after what the caller of conn.Prepare does with the   *)
(* statement, stmt the statement the caller has prepared ("" for none).    *)

Idle == [pc |-> "idle", ip |-> 1, text |-> "", after |-> "", stmt |-> ""]

\* the call connection c is at
Call(c) == script[c][cst[c].ip]

AtCall(c, op) ==
    /\ cst[c].pc = "idle"
    /\ cst[c].ip <= Len(script[c])
    /\ Call(c)[1] = op

\* the call returns err and val to the caller, who keeps the statement st
Finish(c, err, val, st) ==
    /\ got' = [got EXCEPT ![c] = Append(@, [op |-> Call(c)[1], query |-> Call(c)[2],
                                            err |-> err, val |-> val])]
    /\ cst' = [cst EXCEPT ![c] = [pc |-> "idle",
                                  ip |-> IF err = NoError THEN @.ip + 1 ELSE Len(script[c]) + 1,
                                  text |-> "", after |-> "", stmt |-> st]]

\* conn.Prepare is called with query
EnterPrepare(c, query, after) ==
    /\ cst' = [cst EXCEPT ![c].pc = "Prepare", ![c].text = query, ![c].after = after]
    /\ UNCHANGED <<seqs, got>>

\* the first statement of conn.ExecContext, conn.QueryContext and
\* conn.PrepareContext:  translated, err := Translate(query)
TranslateQuery(c) ==
    /\ \/ AtCall(c, "ExecContext")
       \/ AtCall(c, "QueryContext")
       \/ AtCall(c, "PrepareContext")
    /\ cst' = [cst EXCEPT ![c].pc = "translated", ![c].text = Translate(Call(c)[2])]
    /\ UNCHANGED <<tvars, seqs, got, script, innerCtx>>

\* the rest of conn.ExecContext and conn.QueryContext: the wrapped connection
\* runs the translated statement, or conn.Prepare gets the translated statement
RunContext(c, after) ==
    IF innerCtx
    THEN \E o \in EngineRun(cst[c].text) :
            /\ seqs' = IF o.err = NoError THEN EngineEffect(seqs, cst[c].text) ELSE seqs
            /\ Finish(c, o.err, o.val, cst[c].stmt)
    ELSE EnterPrepare(c, cst[c].text, after)

ConnExecContext(c) ==
    /\ cst[c].pc = "translated"
    /\ Call(c)[1] = "ExecContext"
    /\ RunContext(c, "Exec")
    /\ UNCHANGED <<tvars, script, innerCtx>>

ConnQueryContext(c) ==
    /\ cst[c].pc = "translated"
    /\ Call(c)[1] = "QueryContext"
    /\ RunContext(c, "Query")
    /\ UNCHANGED <<tvars, script, innerCtx>>

\* the rest of conn.PrepareContext: the wrapped connection prepares the
\* translated statement, or conn.Prepare gets the query
ConnPrepareContext(c) ==
    /\ cst[c].pc = "translated"
    /\ Call(c)[1] = "PrepareContext"
    /\ IF innerCtx
       THEN /\ Finish(c, IF sqlitePrepare(cst[c].text) = "" THEN NoError
                         ELSE EngineError(sqlitePrepare(cst[c].text)), 0,
                      IF sqlitePrepare(cst[c].text) = "" THEN cst[c].text ELSE "")
            /\ UNCHANGED seqs
       ELSE EnterPrepare(c, Call(c)[2], "stmt")
    /\ UNCHANGED <<tvars, script, innerCtx>>

\* the caller calls conn.Prepare
ConnPrepare(c) ==
    /\ AtCall(c, "Prepare")
    /\ EnterPrepare(c, Call(c)[2], "stmt")
    /\ UNCHANGED <<tvars, script, innerCtx>>

\* the first statement of conn.Prepare:  translated, err := Translate(query)
PrepareTranslate(c) ==
    /\ cst[c].pc = "Prepare"
    /\ cst' = [cst EXCEPT ![c].pc = "resolve", ![c].text = Translate(@)]
    /\ UNCHANGED <<tvars, seqs, got, script, innerCtx>>

\* conn.nextval, first statement: execDirect of the UPDATE
NextvalUpdate(c) ==
    /\ cst[c].pc = "resolve"
    /\ SeqCall(cst[c].text, "nextval(").ok
    /\ seqs' = UpdateSeq(seqs, SeqCall(cst[c].text, "nextval(").name)
    /\ cst' = [cst EXCEPT ![c].pc = "nextvalSelect"]
    /\ UNCHANGED <<tvars, got, script, innerCtx>>

\* conn.nextval, second statement: queryDirectInt64 of the SELECT, and the
\* replacement of the call by the value
NextvalSelect(c) ==
    /\ cst[c].pc = "nextvalSelect"
    /\ LET call == SeqCall(cst[c].text, "nextval(")
       IN IF HasSeq(seqs, call.name)
          THEN /\ cst' = [cst EXCEPT ![c].pc = "resolve",
                                     ![c].text = Substitute(@, call, SeqRow(seqs, call.name).cur)]
               /\ UNCHANGED got
          ELSE Finish(c, wrapError(EOF), 0, cst[c].stmt)
    /\ UNCHANGED <<tvars, seqs, script, innerCtx>>

\* conn.currval, once no call of nextval is left
CurrvalSelect(c) ==
    /\ cst[c].pc = "resolve"
    /\ ~SeqCall(cst[c].text, "nextval(").ok
    /\ SeqCall(cst[c].text, "currval(").ok
    /\ LET call == SeqCall(cst[c].text, "currval(")
       IN IF HasSeq(seqs, call.name)
          THEN /\ cst' = [cst EXCEPT ![c].text = Substitute(@, call, SeqRow(seqs, call.name).cur)]
               /\ UNCHANGED got
          ELSE Finish(c, wrapError(EOF), 0, cst[c].stmt)
    /\ UNCHANGED <<tvars, seqs, script, innerCtx>>

\* the end of conn.Prepare: the wrapped connection prepares the statement; a
\* caller that fell back to Prepare runs it at once and closes it
InnerPrepare(c) ==
    /\ cst[c].pc = "resolve"
    /\ ~SeqCall(cst[c].text, "nextval(").ok
    /\ ~SeqCall(cst[c].text, "currval(").ok
    /\ LET text == cst[c].text
           e == sqlitePrepare(text)
       IN IF e # ""
          THEN Finish(c, wrapError(EngineError(e)), 0, cst[c].stmt) /\ UNCHANGED seqs
          ELSE IF cst[c].after = "stmt"
          THEN Finish(c, NoError, 0, text) /\ UNCHANGED seqs
          ELSE \E o \in EngineRun(text) :
                  /\ seqs' = IF o.err = NoError THEN EngineEffect(seqs, text) ELSE seqs
                  /\ Finish(c, wrapError(o.err), o.val, cst[c].stmt)
    /\ UNCHANGED <<tvars, script, innerCtx>>

\* stmt.Exec and stmt.Query
RunStmt(c) ==
    \E o \in EngineRun(cst[c].stmt) :
        /\ seqs' = IF o.err = NoError THEN EngineEffect(seqs, cst[c].stmt) ELSE seqs
        /\ Finish(c, wrapError(o.err), o.val, cst[c].stmt)

\* stmt.ExecContext and stmt.QueryContext
RunStmtContext(c) ==
    IF innerCtx
    THEN \E o \in EngineRun(cst[c].stmt) :
            /\ seqs' = IF o.err = NoError THEN EngineEffect(seqs, cst[c].stmt) ELSE seqs
            /\ Finish(c, o.err, o.val, cst[c].stmt)
    ELSE RunStmt(c)

StmtExec(c) ==
    /\ AtCall(c, "StmtExec")
    /\ cst[c].stmt # ""
    /\ RunStmt(c)
    /\ UNCHANGED <<tvars, script, innerCtx>>

StmtQuery(c) ==
    /\ AtCall(c, "StmtQuery")
    /\ cst[c].stmt # ""
    /\ RunStmt(c)
    /\ UNCHANGED <<tvars, script, innerCtx>>

StmtExecContext(c) ==
    /\ AtCall(c, "StmtExecContext")
    /\ cst[c].stmt # ""
    /\ RunStmtContext(c)
    /\ UNCHANGED <<tvars, script, innerCtx>>

StmtQueryContext(c) ==
    /\ AtCall(c, "StmtQueryContext")
    /\ cst[c].stmt # ""
    /\ RunStmtContext(c)
    /\ UNCHANGED <<tvars, script, innerCtx>>

\* at most two connections are open
Conns == {1, 2}

Open(c) == c \in DOMAIN script

DriverNext ==
    \/ \E c \in Conns : Open(c) /\ TranslateQuery(c)
    \/ \E c \in Conns : Open(c) /\ ConnExecContext(c)
    \/ \E c \in Conns : Open(c) /\ ConnQueryContext(c)
    \/ \E c \in Conns : Open(c) /\ ConnPrepareContext(c)
    \/ \E c \in Conns : Open(c) /\ ConnPrepare(c)
    \/ \E c \in Conns : Open(c) /\ PrepareTranslate(c)
    \/ \E c \in Conns : Open(c) /\ NextvalUpdate(c)
    \/ \E c \in Conns : Open(c) /\ NextvalSelect(c)
    \/ \E c \in Conns : Open(c) /\ CurrvalSelect(c)
    \/ \E c \in Conns : Open(c) /\ InnerPrepare(c)
    \/ \E c \in Conns : Open(c) /\ StmtExec(c)
    \/ \E c \in Conns : Open(c) /\ StmtQuery(c)
    \/ \E c \in Conns : Open(c) /\ StmtExecContext(c)
    \/ \E c \in Conns : Open(c) /\ StmtQueryContext(c)

(* The callers: the calls a program makes on one connection, in order.     *)

CreateSeq == "CREATE SEQUENCE s"

InsertSeq == "INSERT OR IGNORE INTO _sequences (name, current_value, increment) VALUES ('s', 0, 1)"

NextvalQuery == "SELECT nextval('s')"

CurrvalQuery == "SELECT currval('s')"

InsertT == "INSERT INTO t (id, name) VALUES ($1, $2)"

SelectMissing == "SELECT * FROM missing"

SelectX == "SELECT x FROM t"


\* the sequence calls of the repository's driver test, through database/sql
SeqThroughAPI ==
    << <<"ExecContext", CreateSeq>>, <<"QueryContext", NextvalQuery>>,
       <<"QueryContext", NextvalQuery>>, <<"QueryContext", CurrvalQuery>> >>

\* the same calls on a sequence whose row the caller inserts itself
SeqSeeded ==
    << <<"ExecContext", InsertSeq>>, <<"QueryContext", NextvalQuery>>,
       <<"QueryContext", NextvalQuery>>, <<"QueryContext", CurrvalQuery>> >>

\* a statement with nextval is prepared and then run n times
Prepared(prepare, run, n) ==
    << <<"ExecContext", InsertSeq>>, <<prepare, NextvalQuery>> >> \o [i \in 1..n |-> <<run, "">>]

\* one call of each entry point with a statement the engine may refuse
Failing ==
    { << <<"ExecContext", InsertT>> >>, << <<"ExecContext", SelectMissing>> >>,
      << <<"QueryContext", SelectMissing>> >>, << <<"QueryContext", SelectX>> >>,
      << <<"Prepare", SelectMissing>> >>,
      << <<"PrepareContext", SelectMissing>> >>,
      << <<"Prepare", InsertT>>, <<"StmtExec", "">> >>,
      << <<"Prepare", SelectX>>, <<"StmtQuery", "">> >>,
      << <<"PrepareContext", InsertT>>, <<"StmtExecContext", "">> >>,
      << <<"PrepareContext", SelectX>>, <<"StmtQueryContext", "">> >>,
      << <<"PrepareContext", InsertT>>, <<"StmtExec", "">> >>,
      << <<"Prepare", SelectX>>, <<"StmtQueryContext", "">> >> }

MaxRuns == 2

PreparedScripts ==
    { Prepared(p, r, n) : p \in {"Prepare", "PrepareContext"},
                          r \in {"StmtQuery", "StmtQueryContext"}, n \in 0..MaxRuns }

\* one nextval on a connection
NextvalOnce == { Prepared("Prepare", "StmtQuery", 1), SubSeq(SeqSeeded, 1, 2) }

\* the programs: one connection, or two connections to the same database
DriverScripts ==
    { <<s>> : s \in {SeqThroughAPI, SeqSeeded} \cup PreparedScripts \cup Failing }
        \cup { <<a, b>> : a \in NextvalOnce, b \in NextvalOnce }

\* Open: the wrapped connection, and the table _sequences, empty
InitDriver ==
    /\ sql = "" /\ pc = "driver" /\ tokens = <<>> /\ result = "" /\ round = 1 /\ prev = ""
    /\ seqs = {}
    /\ innerCtx \in BOOLEAN
    /\ script \in DriverScripts
    /\ cst = [c \in DOMAIN script |-> Idle]
    /\ got = [c \in DOMAIN script |-> <<>>]

SpecDriver == InitDriver /\ [][DriverNext]_vars


---------------------------------------------------------------------------
(* classifySQLiteError on its own: sql is the message, result the code.    *)

\* phrases of engine messages; with each the place, in the order 23505, 23502,
\* 23503, 23514, 42P01, 42703, 42601, XX000, of the code its words stand for:
\* first counting the spaced spelling only, then the underscore spelling too
ClassifyPhrases ==
    << <<"UNIQUE constraint failed: t.id", 1, 1>>, <<"Unique Constraint", 1, 1>>,
       <<"NOT NULL constraint failed: t.name", 2, 2>>,
       <<"FOREIGN KEY constraint failed", 3, 3>>,
       <<"CHECK constraint failed: c", 4, 4>>, <<"check constraint", 4, 4>>,
       <<"no such table: t", 5, 5>>, <<"No Such Table", 5, 5>>,
       <<"no such column: x", 6, 6>>,
       <<"near \"x\": syntax error", 7, 7>>, <<"SYNTAX ERROR", 7, 7>>,
       <<"unique_constraint", 8, 1>>, <<"NOT_NULL_CONSTRAINT", 8, 2>>,
       <<"foreign_key_constraint", 8, 3>>, <<"check_constraint", 8, 4>>,
       <<"no_such_table", 8, 5>>, <<"No_Such_Column", 8, 6>>,
       <<"database is locked", 8, 8>>, <<"EOF", 8, 8>>, <<"", 8, 8>>,
       <<"constraint failed", 8, 8>>, <<"unique  constraint", 8, 8>>,
       <<"syntax_error", 8, 8>>, <<"no such function: nextval", 8, 8>> >>

SQLStates == << "23505", "23502", "23503", "23514", "42P01", "42703", "42601", "XX000" >>

\* a message of one phrase, or of two phrases in either order
ClassifyMessage(a, b) ==
    IF b = 0 THEN ClassifyPhrases[a][1]
    ELSE ClassifyPhrases[a][1] \o "; " \o ClassifyPhrases[b][1]

ClassifyInputs ==
    { ClassifyMessage(a, b) : a \in 1..Len(ClassifyPhrases), b \in 0..Len(ClassifyPhrases) }

ClassifyStep ==
    /\ pc = "classifySQLiteError"
    /\ result' = classifySQLiteError(sql)
    /\ pc' = "return"
    /\ UNCHANGED <<sql, tokens, round, prev>>
    /\ UNCHANGED dvars

InitClassify ==
    /\ sql \in ClassifyInputs
    /\ pc = "classifySQLiteError" /\ tokens = <<>> /\ result = "" /\ round = 1 /\ prev = ""
    /\ DriverOff

SpecClassify == InitClassify /\ [][ClassifyStep]_vars


(***************************************************************************)
(* parseDSN: the data source name handed to Driver.Open becomes the name   *)
(* of the SQLite database.                                                 *)
(***************************************************************************)
TrimPrefix(s, p) == IF HasPrefix(s, p) THEN Slice(s, Len(p), Len(s)) ELSE s

\* strings.Index for a single separator, Len(s) when it is absent
CutAt(s, ch) == IF Contains(s, ch) THEN StrIndex(s, ch) ELSE Len(s)

\* net/url.Parse for scheme://authority/path?query#fragment: the fragment
\* is cut at the first '#', the query at the first '?', the authority ends
\* at the first '/', the rest is the path; a blank in the authority is an
\* error.  Percent escapes are not modelled, no input holds one.
urlParse(dsn) ==
    LET rest   == Slice(dsn, StrIndex(dsn, "://") + 3, Len(dsn))
        nofrag == Slice(rest, 0, CutAt(rest, "#"))
        noqry  == Slice(nofrag, 0, CutAt(nofrag, "?"))
        slash  == CutAt(noqry, "/")
    IN  [ err  |-> Contains(Slice(noqry, 0, slash), " "),
          Path |-> Slice(noqry, slash, Len(noqry)) ]

\* the end of the run of non-blank characters that starts s
CutSpace(s) == Min({ j \in 0..Len(s) : j = Len(s) \/ IsSpace(At(s, j)) })

\* strings.Fields: the maximal runs of non-blank characters
RECURSIVE Fields(_)
Fields(s) ==
    IF s = "" THEN <<>>
    ELSE IF IsSpace(At(s, 0)) THEN Fields(Slice(s, 1, Len(s)))
    ELSE LET e == CutSpace(s)
         IN  <<Slice(s, 0, e)>> \o Fields(Slice(s, e, Len(s)))

\* the loop over the fields: the first field whose key is dbname decides
RECURSIVE dbnameOf(_)
dbnameOf(parts) ==
    IF parts = <<>> THEN "database.db"
    ELSE LET part == Head(parts)
             eq   == StrIndex(part, "=")
         IN  IF eq >= 0 /\ Slice(part, 0, eq) = "dbname"
             THEN Slice(part, eq + 1, Len(part)) \o ".db"
             ELSE dbnameOf(Tail(parts))

parseDSN(dsn) ==
    IF dsn = ":memory:" \/ HasPrefix(dsn, "file:") THEN dsn
    ELSE IF HasPrefix(dsn, "postgres://") \/ HasPrefix(dsn, "postgresql://")
    THEN LET u == urlParse(dsn)
             dbname == TrimPrefix(u.Path, "/")
         IN  IF u.err THEN dsn
             ELSE IF dbname = "" THEN "database.db"
             ELSE dbname \o ".db"
    ELSE IF Contains(dsn, "=") /\ ~Contains(dsn, "/")
    THEN dbnameOf(Fields(dsn))
    ELSE dsn

\* the three kinds of data source name of the documentation, each with the
\* database the claim names for it
DSNSchemes == {"postgres://", "postgresql://"}
DSNUsers == {"", "user:pass@", "u@"}
DSNHosts == {"localhost", "db.example.com:5432", ""}
DSNNames == {"myapp", "test", "my_db"}
DSNTails == {"", "?sslmode=disable", "#main"}
DSNBefore == {"", "host=localhost ", "host=/var/run/postgresql ", "user=postgres  port=5432 "}
DSNAfter == {"", " user=postgres", " sslmode=disable", "\tconnect_timeout=10"}

URLDSNs ==
    { <<s \o u \o h \o "/" \o x \o t, x \o ".db">> :
        <<s, u, h, x, t>> \in DSNSchemes \X DSNUsers \X DSNHosts \X DSNNames \X DSNTails }

KeyValueDSNs ==
    { <<b \o "dbname=" \o x \o a, x \o ".db">> :
        <<b, x, a>> \in DSNBefore \X DSNNames \X DSNAfter }

SQLiteDSNs ==
    { <<d, d>> : d \in { ":memory:", "file:test.db", "file::memory:?cache=shared",
                         "file:data/app.db?mode=ro", "file:dbname=x",
                         "myapp.db", "data/myapp.db", "/var/lib/app/app.sqlite",
                         "./cache=1.db", "a=b.db", "my app.db", "app" } }

DSNCases == URLDSNs \cup KeyValueDSNs \cup SQLiteDSNs

ParseDSNStep ==
    /\ pc = "parseDSN"
    /\ result' = parseDSN(sql)
    /\ pc' = "return"
    /\ UNCHANGED <<sql, tokens, round, prev>>
    /\ UNCHANGED dvars

InitDSN ==
    /\ sql \in { c[1] : c \in DSNCases }
    /\ pc = "parseDSN" /\ tokens = <<>> /\ result = "" /\ round = 1 /\ prev = ""
    /\ DriverOff

SpecDSN == InitDSN /\ [][ParseDSNStep]_vars

(* Quoted lexemes in the places the passes look at: a string, a quoted     *)
(* identifier or a comment whose text looks like a keyword, a type, an     *)
(* operator or a parameter.                                                *)
\* <<lexeme, kind, text that ends it>>
AtomicLexemes ==
    { <<"'TRUE'", TokString, "">>, <<"'$1'", TokString, "">>, <<"'a::int'", TokString, "">>,
      <<"'YYYY-MM-DD'", TokString, "">>, <<"'month'", TokString, "">>,
      <<"'it''s'", TokString, "">>,
      <<"\"BOOLEAN\"", TokIdent, "">>, <<"\"serial\"", TokIdent, "">>,
      <<"\"$1\"", TokIdent, "">>, <<"\"a::b\"", TokIdent, "">>, <<"\"my_type\"", TokIdent, "">>,
      <<"-- $1", TokComment, "\n">>, <<"/* TRUE::int */", TokComment, "">>,
      <<"/* ILIKE $2 */", TokComment, "">> }

\* <<text before the lexeme, text after it>>
AtomicPlaces ==
    { <<"SELECT ", "">>,
      <<"SELECT a, ", " FROM t WHERE b = TRUE">>,
      <<"SELECT x::", "">>,
      <<"SELECT ", "::text">>,
      <<"SELECT to_char(d, ", ")">>,
      <<"SELECT date_trunc(", ", d)">>,
      <<"CREATE TABLE t (", " SERIAL PRIMARY KEY)">>,
      <<"CREATE TABLE t (a VARCHAR(10 ", "))">>,
      <<"SELECT a FROM t ORDER BY ", " NULLS LAST">>,
      <<"SELECT a FROM t WHERE a ILIKE ", " AND b IS TRUE">> }

AtomicText(l, p) == p[1] \o l[1] \o l[3] \o p[2]

AtomicInputs == { AtomicText(l, p) : l \in AtomicLexemes, p \in AtomicPlaces }

InitAtomic == sql \in AtomicInputs /\ Start

SpecAtomic == InitAtomic /\ [][Next]_vars

(* Operators and dollar signs between operands, each text with the tokens  *)
(* the tokenizer is to make of it.                                         *)
OperatorTexts == { "::", "!~*", "->>", "||", "~*", "!~", "->", ":", "|", "~" }

OperatorBefore ==
    { <<"", <<>>>>, <<"a", <<Id("a")>>>>, <<"a ", <<Id("a"), Sp>>>>, <<"1", <<Num("1")>>>>,
      <<")", <<RP>>>>, <<"'s'", <<Str("'s'")>>>>, <<"$1", <<Syn(TokParam, "$1")>>>> }

OperatorAfter ==
    { <<"", <<>>>>, <<"b", <<Id("b")>>>>, <<" b", <<Sp, Id("b")>>>>, <<"2", <<Num("2")>>>>,
      <<"(", <<LP>>>>, <<"'x'", <<Str("'x'")>>>>, <<"$2", <<Syn(TokParam, "$2")>>>> }

\* an operator between two operands is one token
OperatorBetween ==
    { <<b[1] \o o \o a[1], b[2] \o <<Op(o)>> \o a[2]>> :
        <<b, o, a>> \in OperatorBefore \X OperatorTexts \X OperatorAfter }

\* runs of operator characters: the longest operator is taken first
OperatorRuns ==
    { <<":::", <<Op("::"), Op(":")>>>>, <<"::::", <<Op("::"), Op("::")>>>>,
      <<"|||", <<Op("||"), Op("|")>>>>, <<"->>>", <<Op("->>"), Op(">")>>>>,
      <<"!~**", <<Op("!~*"), Op("*")>>>>, <<"~**", <<Op("~*"), Op("*")>>>>,
      <<"!~~*", <<Op("!~"), Op("~*")>>>>, <<"a->>'k'->0", <<Id("a"), Op("->>"), Str("'k'"),
                                                              Op("->"), Num("0")>>>> }

\* dollar signs: parameters, and dollar signs that open no closed quote
DollarSigns ==
    { <<"$1", <<Syn(TokParam, "$1")>>>>, <<"$12", <<Syn(TokParam, "$12")>>>>,
      <<"$1a", <<Syn(TokParam, "$1"), Id("a")>>>>,
      <<"$1$", <<Syn(TokParam, "$1"), Op("$")>>>>,
      <<"$1$x$1$", <<Syn(TokParam, "$1"), Op("$"), Id("x"), Syn(TokParam, "$1"), Op("$")>>>>,
      <<"$1,$2", <<Syn(TokParam, "$1"), Cm, Syn(TokParam, "$2")>>>>,
      <<"$", <<Op("$")>>>>, <<"$ 1", <<Op("$"), Sp, Num("1")>>>>,
      <<"$a", <<Op("$"), Id("a")>>>>, <<"$a$", <<Op("$"), Id("a"), Op("$")>>>>,
      <<"$a$b", <<Op("$"), Id("a"), Op("$"), Id("b")>>>>,
      <<"$a$x$b$", <<Op("$"), Id("a"), Op("$"), Id("x"), Op("$"), Id("b"), Op("$")>>>>,
      <<"$$", <<Op("$"), Op("$")>>>>, <<"$$x", <<Op("$"), Op("$"), Id("x")>>>>,
      <<"$$x$", <<Op("$"), Op("$"), Id("x"), Op("$")>>>>,
      <<"$(", <<Op("$"), LP>>>>, <<"a$", <<Id("a"), Op("$")>>>>,
      <<"a$1", <<Id("a"), Syn(TokParam, "$1")>>>>,
      <<"$::", <<Op("$"), Op("::")>>>> }

OperatorCases == OperatorBetween \cup OperatorRuns \cup DollarSigns

InitOperator == sql \in { c[1] : c \in OperatorCases } /\ Start

SpecOperator == InitOperator /\ [][Next]_vars

(* Statements with numbered parameters, in and out of ascending order.     *)
ParamNames == {"$1", "$2", "$3"}

ParamShapes ==
    { <<"SELECT * FROM t WHERE a = ", " AND b = ", "">>,
      <<"INSERT INTO t (a, b) VALUES (", ", ", ")">>,
      <<"UPDATE t SET a = ", " WHERE id = ", "">>,
      <<"SELECT a FROM t LIMIT ", " OFFSET ", "">> }

ParamInputs ==
    { s[1] \o p \o s[2] \o q \o s[3] : <<s, p, q>> \in ParamShapes \X ParamNames \X ParamNames }

InitParam == sql \in ParamInputs /\ Start

SpecParam == InitParam /\ [][Next]_vars

\* every family together
Init == sql \in (LexInputs \cup ExprInputs \cup ColInputs \cup TypeInputs) /\ Start

Spec == Init /\ [][Next]_vars

---------------------------------------------------------------------------
(* Claims.                                                                 *)

\* C1: Translate returns a text and a nil error for every input string, also for
\* an unterminated string, E-string, quoted identifier or comment: no pass aborts.
C1_NoPassAborts == pc # "panic"

RewrittenKeywords ==
    DOMAIN pgTypeToSQLite \cup
    { "DOUBLE", "NUMERIC", "DECIMAL", "INTERVAL", "SERIAL", "BIGSERIAL", "SMALLSERIAL",
      "NOW", "CURRENT_DATE", "CURRENT_TIME", "CURRENT_TIMESTAMP", "ILIKE", "TRUE", "FALSE",
      "EXTRACT", "NULLS", "LEFT", "RIGHT" }

RewrittenFunctions ==
    { "date_trunc", "concat", "string_agg", "array_agg", "date_part", "to_char", "left", "right" }

\* a token that some pass looks for
IsRewriteTrigger(t) ==
    \/ t.Kind = TokParam
    \/ t.Kind = TokOperator /\ t.Value = "::"
    \/ IsEString(t)
    \/ t.Kind = TokKeyword /\ t.Value \in RewrittenKeywords
    \/ t.Kind = TokIdent /\ ToLower(t.Value) \in RewrittenFunctions

RECURSIVE HasDollarQuote(_, _)
\* the tokenizer, started at runes[i], recognises a dollar-quoted literal
HasDollarQuote(runes, i) ==
    IF i >= Len(runes) THEN FALSE
    ELSE IF At(runes, i) = "$" /\ tryDollarQuote(runes, i, Len(runes)).ok THEN TRUE
    ELSE HasDollarQuote(runes, Lex(runes, i).next)

IsPlain(s) ==
    LET toks == Tokenize(s)
    IN ~HasDollarQuote(s, 0) /\ \A i \in 1..Len(toks) : ~IsRewriteTrigger(toks[i])

\* C2: a statement with none of the constructs the passes rewrite is returned
\* unchanged, character for character, whitespace and comments included.
C2_PlainStatementUnchanged == (pc = "return" /\ IsPlain(sql)) => result = sql

\* C2 witness: a lower-case keyword, a comment and a parenthesized name came back as written
C2_Witness ==
    /\ pc = "return"
    /\ round = 1
    /\ sql = "select -- c\n(a)"
    /\ IsPlain(sql)
    /\ result = sql

\* C4: Translate is idempotent: translating the result of Translate again returns
\* the same text.
C4_Idempotent == (pc = "return" /\ round = 2) => result = prev

CountTokens(toks, kind, value) ==
    Cardinality({ i \in 1..Len(toks) : toks[i].Kind = kind /\ toks[i].Value = value })

CountKind(toks, kind) == Cardinality({ i \in 1..Len(toks) : toks[i].Kind = kind })

\* C5: the number of ? operator tokens in the output equals the number of $N
\* parameter tokens plus the number of ? tokens in the input.
C5_ParameterCountKept ==
    pc = "return" =>
        CountTokens(Tokenize(result), TokOperator, "?")
            = CountKind(Tokenize(sql), TokParam) + CountTokens(Tokenize(sql), TokOperator, "?")

RECURSIVE ParenDepth(_, _, _)
\* the nesting depth after the tokens from index i on, or -1 once a ) has no (
ParenDepth(toks, i, depth) ==
    IF depth < 0 THEN -1
    ELSE IF i > Len(toks) THEN depth
    ELSE IF toks[i].Kind = TokParen /\ toks[i].Value = "(" THEN ParenDepth(toks, i + 1, depth + 1)
    ELSE IF toks[i].Kind = TokParen /\ toks[i].Value = ")" THEN ParenDepth(toks, i + 1, depth - 1)
    ELSE ParenDepth(toks, i + 1, depth)

\* the parenthesis tokens of toks balance: every ) closes a ( before it, none stays open
Balanced(toks) == ParenDepth(toks, 1, 0) = 0

\* C6: for every input whose parentheses balance, the parentheses of the output
\* of Translate balance, whatever rewrites apply.  The parentheses of a text are
\* the Paren tokens the tokenizer finds in it, so that a parenthesis inside a
\* string or a comment does not count.
C6_ParenthesesStayBalanced ==
    (pc = "return" /\ Balanced(Tokenize(sql))) => Balanced(Tokenize(result))

\* the operands e of a cast, with the text the passes make of e
CastOperands == { <<"x", "x">>, <<"1", "1">>, <<"'s'", "'s'">>, <<"$1", "?">>, <<"(a)", "(a)">> }

\* the cast suffixes ::T, with the SQLite type of T
CastTypes == { <<"::int", "INTEGER">>, <<"::numeric(10,2)", "REAL">> }

\* what may stand before e::T so that e is still the operand of the cast
CastPrefixes == { "", " ", "SELECT", "(" }

IsIdentChar(ch) == ch \in IdentCharSet

\* p directly followed by e keeps e a lexeme of its own
KeepsOperand(p, e) == p = "" \/ ~IsIdentChar(At(p, Len(p) - 1)) \/ ~IsIdentChar(At(e, 0))

\* C7: for every e::T where e is a literal, an identifier, a parameter or a
\* parenthesized expression, the output contains CAST(e AS M(T)), the (n) or (n,m)
\* suffix of T consumed.
C7_CastOfOperand ==
    (pc = "return" /\ round = 1) =>
        \A p \in CastPrefixes, e \in CastOperands, t \in CastTypes :
            (KeepsOperand(p, e[1]) /\ sql = p \o e[1] \o t[1])
                => Contains(result, "CAST(" \o e[2] \o " AS " \o t[2] \o ")")

\* the column definition s: the name id, a SERIAL type, then clauses up to the
\* end, PRIMARY KEY among them at most once
IsSerialColumn(s) ==
    LET toks == Tokenize(s)
    IN /\ Len(toks) >= 3
       /\ CountTokens(toks, TokKeyword, "PRIMARY") <= 1
       /\ toks[3].Kind = TokKeyword /\ toks[3].Value \in {"SERIAL", "BIGSERIAL", "SMALLSERIAL"}
       /\ \A i \in 4..Len(toks) :
            /\ toks[i].Kind # TokComma
            /\ ~(toks[i].Kind = TokKeyword /\ toks[i].Value \in {"SERIAL", "BIGSERIAL", "SMALLSERIAL"})

\* C8: c SERIAL | BIGSERIAL | SMALLSERIAL becomes c INTEGER PRIMARY KEY AUTOINCREMENT,
\* a later PRIMARY KEY of the same column definition is removed so that PRIMARY KEY
\* occurs exactly once, and the other constraints follow AUTOINCREMENT.
C8_SerialPrimaryKeyOnce ==
    (pc = "return" /\ round = 1 /\ IsSerialColumn(sql)) =>
        /\ HasPrefix(result, "id INTEGER PRIMARY KEY AUTOINCREMENT")
        /\ CountTokens(Tokenize(result), TokKeyword, "PRIMARY") = 1

\* the DEFAULT values of the claim, with the text each is to become
DefaultForms ==
    { <<"NOW()", "(datetime('now'))">>, <<"CURRENT_TIMESTAMP", "(datetime('now'))">>,
      <<"CURRENT_DATE", "(date('now'))">>, <<"CURRENT_TIME", "(time('now'))">> }

\* C10: directly after DEFAULT, NOW(), CURRENT_TIMESTAMP, CURRENT_DATE and
\* CURRENT_TIME are emitted wrapped in parentheses, never as a bare function call.
C10_DefaultWrapped ==
    (pc = "return" /\ round = 1) =>
        \A f \in DefaultForms :
            sql = "id DEFAULT " \o f[1] => result = "id DEFAULT " \o f[2]

\* the type mapping table: PostgreSQL type, suffix allowed, SQLite type
MappingTable ==
    { <<"SMALLINT", "INTEGER">>, <<"INT2", "INTEGER">>, <<"INT4", "INTEGER">>,
      <<"INT8", "INTEGER">>, <<"BIGINT", "INTEGER">>, <<"BOOLEAN", "INTEGER">>,
      <<"BOOL", "INTEGER">>,
      <<"VARCHAR", "TEXT">>, <<"CHAR", "TEXT">>, <<"CHARACTER", "TEXT">>,
      <<"CHARACTER VARYING", "TEXT">>, <<"TEXT", "TEXT">>, <<"UUID", "TEXT">>,
      <<"JSON", "TEXT">>, <<"JSONB", "TEXT">>, <<"DATE", "TEXT">>, <<"TIME", "TEXT">>,
      <<"TIME WITH TIME ZONE", "TEXT">>, <<"TIME WITHOUT TIME ZONE", "TEXT">>,
      <<"TIMESTAMP", "TEXT">>, <<"TIMESTAMP WITH TIME ZONE", "TEXT">>,
      <<"TIMESTAMP WITHOUT TIME ZONE", "TEXT">>, <<"TIMESTAMPTZ", "TEXT">>,
      <<"TIMETZ", "TEXT">>, <<"INTERVAL", "TEXT">>,
      <<"REAL", "REAL">>, <<"FLOAT4", "REAL">>, <<"FLOAT8", "REAL">>,
      <<"DOUBLE PRECISION", "REAL">>, <<"NUMERIC", "REAL">>, <<"DECIMAL", "REAL">>,
      <<"BYTEA", "BLOB">> }

\* the types of the table that may carry an (n) or (p,s) suffix
SuffixedTypes == {"VARCHAR", "CHAR", "CHARACTER", "CHARACTER VARYING", "NUMERIC", "DECIMAL"}

\* the spellings of a table type: letter case, runs of whitespace, a suffix
Spellings(pg) ==
    {pg}
    \cup (IF pg \in SuffixedTypes /\ pg \notin {"NUMERIC", "DECIMAL"} THEN {pg \o "(10)"} ELSE {})
    \cup (IF pg \in {"NUMERIC", "DECIMAL"} THEN {pg \o "(10,2)"} ELSE {})
    \cup (IF pg = "NUMERIC" THEN {"NUMERIC(10)", "numeric (10, 2)"} ELSE {})
    \cup (IF pg = "VARCHAR" THEN {"varchar (10)"} ELSE {})
    \cup (IF pg = "CHARACTER VARYING" THEN {"Character  Varying (10)"} ELSE {})
    \cup (IF pg = "TIMESTAMP WITH TIME ZONE" THEN {"timestamp  with time\nzone"} ELSE {})
    \cup (IF pg = "DOUBLE PRECISION" THEN {"double  precision"} ELSE {})
    \cup (IF pg = "BOOL" THEN {"bool"} ELSE {})

TypeFamilyCovered ==
    sql \in TypeInputs =>
        \E m1, m2 \in MappingTable :
            \E t1 \in Spellings(m1[1]), t2 \in Spellings(m2[1]) : sql = TypeColumns(t1, t2)

\* the closing $tag$ of the literal is the first one after the opening tag
ClosesAtEnd(tag, body) ==
    LET close == "$" \o tag \o "$"
        text == body \o close
    IN \A i \in 0..(Len(body) - 1) : ~MatchAt(text, i, close)

\* body with every single quote doubled, in single quotes
Quoted(body) == "'" \o ReplaceAll(body, "'", "''") \o "'"

\* C11: a dollar-quoted literal $tag$body$tag$, tag empty or an identifier, body
\* possibly empty, is emitted as the one single-quoted string 'body' with every
\* single quote of body doubled; no dollar-quote syntax reaches the output.
C11_DollarQuoteBecomesString ==
    (pc = "return" /\ round = 1) =>
        \A p \in 1..Len(DollarPrefixes), t \in 1..Len(DollarTags),
           b \in 1..Len(DollarBodies), s \in 1..Len(DollarSuffixes) :
            (/\ ClosesAtEnd(DollarTags[t], DollarBodies[b])
             /\ sql = DollarPrefixes[p] \o DollarLiteral(DollarTags[t], DollarBodies[b])
                        \o DollarSuffixes[s])
                => result = DollarPrefixes[p] \o Quoted(DollarBodies[b]) \o DollarSuffixes[s]

\* C11 witness: a tagged literal holding a single quote has been translated
C11_Witness ==
    /\ pc = "return"
    /\ round = 1
    /\ sql = "SELECT $Fn$it's$Fn$;"
    /\ result = "SELECT 'it''s';"

\* the content of an E-string with its escapes resolved: \n, \t, \r, \\ and \'
\* stand for one character, every other backslash sequence for itself
Resolved ==
    [ c \in 1..Len(EscContents) |->
        << "", "a", "abc", "a\nb", "\t", "\r", "\\", "'", "it's", "\\x", "\\n", "100%", "a b" >>[c] ]

\* C12 for E-strings with their closing quote: E'content' becomes the plain
\* string of the resolved content, every single quote doubled.
C12_TerminatedEStrings ==
    (pc = "return" /\ round = 1) =>
        \A p \in 1..Len(EscPrefixes), m \in 1..Len(EscMarks),
           c \in 1..Len(EscContents), s \in 1..Len(EscSuffixes) :
            sql = EscPrefixes[p] \o EscMarks[m] \o "'" \o EscContents[c] \o "'" \o EscSuffixes[s]
                => result = EscPrefixes[p] \o Quoted(Resolved[c]) \o EscSuffixes[s]

\* an E-string that runs to the end of the input keeps all of its content
C12_UnterminatedEStrings ==
    (pc = "return" /\ round = 1) =>
        \A p \in 1..Len(EscPrefixes), m \in 1..Len(EscMarks), c \in 1..Len(EscContents) :
            (/\ sql = EscPrefixes[p] \o EscMarks[m] \o "'" \o EscContents[c]
             /\ Len(Tokenize(sql)) > 0
             /\ IsEString(Tokenize(sql)[Len(Tokenize(sql))])
             /\ Tokenize(sql)[Len(Tokenize(sql))].Raw = EscMarks[m] \o "'" \o EscContents[c])
                => result = EscPrefixes[p] \o Quoted(Resolved[c])

\* C12: every String token whose Raw begins with E' or e' is replaced by a plain
\* single-quoted string: the original content with \n, \t, \r, \\ and \' resolved,
\* every other backslash sequence kept, every single quote of the result doubled.
C12_EStringsResolved == C12_TerminatedEStrings /\ C12_UnterminatedEStrings

\* the rest of a statement after the bare TRUE/FALSE literals became 1/0
RestOut == [ r \in 1..Len(IsRests) |-> << "", " AND y", ")", " = 1", " OR 0", ";" >>[r] ]

OrderKeyOut(c, d, n) ==
    IF OrderNulls[n][1] = "" THEN OrderCols[c] \o OrderDirs[d][1]
    ELSE "(CASE WHEN " \o OrderCols[c] \o " IS NULL THEN " \o OrderNulls[n][2]
           \o " ELSE " \o OrderNulls[n][3] \o " END), " \o OrderCols[c] \o OrderDirs[d][2]

\* C14: each col [ASC|DESC] NULLS FIRST becomes
\* (CASE WHEN col IS NULL THEN 0 ELSE 1 END), col [ASC|DESC], each NULLS LAST the
\* same with THEN 1 ELSE 0, for col an identifier, table.column or a function
\* call; the ASC/DESC is emitted again after the second copy of the column.
C14_NullsOrdering ==
    (pc = "return" /\ round = 1) =>
        \A c1, c2 \in 1..Len(OrderCols), d1, d2 \in 1..Len(OrderDirs), n1, n2 \in 1..Len(OrderNulls) :
            /\ sql = "ORDER BY " \o OrderKey(c1, d1, n1)
                 => result = "ORDER BY " \o OrderKeyOut(c1, d1, n1)
            /\ sql = "ORDER BY " \o OrderKey(c1, d1, n1) \o ", " \o OrderKey(c2, d2, n2)
                 => result = "ORDER BY " \o OrderKeyOut(c1, d1, n1) \o ", " \o OrderKeyOut(c2, d2, n2)

\* C14 witness: a function call with DESC NULLS LAST, after a NULLS FIRST key
C14_Witness ==
    /\ pc = "return"
    /\ round = 1
    /\ sql = "ORDER BY t.c NULLS FIRST, LOWER(name)  desc NULLS LAST"
    /\ result = "ORDER BY (CASE WHEN t.c IS NULL THEN 0 ELSE 1 END), t.c, (CASE WHEN LOWER(name) IS NULL THEN 1 ELSE 0 END), LOWER(name) desc"

\* C15: for the fields year, month, day, hour, minute, second, dow|dayofweek and
\* doy|dayofyear, in any letter case, EXTRACT(field FROM expr) and
\* date_part('field', expr) both become CAST(strftime(fmt, expr) AS INTEGER) with
\* fmt %Y, %m, %d, %H, %M, %S, %w, %j; with any other field the call is unchanged.
C15_ExtractAndDatePart ==
    (pc = "return" /\ round = 1) =>
        \A shape \in 1..4, f \in 1..Len(PartFields), e \in 1..Len(PartArgs), r \in 1..Len(PartRests) :
            sql = "SELECT " \o PartCall(shape, PartFields[f][1], PartArgs[e][1]) \o PartRests[r]
                => result = "SELECT "
                     \o (IF PartFields[f][2] = ""
                         THEN PartCall(shape, PartFields[f][1], PartArgs[e][2])
                         ELSE "CAST(strftime('" \o PartFields[f][2] \o "', " \o PartArgs[e][2]
                                \o ") AS INTEGER)")
                     \o PartRests[r]

\* C15 witness: a date_part call with an upper-case field has been translated
C15_Witness ==
    /\ pc = "return"
    /\ round = 1
    /\ sql = "SELECT DATE_PART( 'DAYOFYEAR' ,f(a, b) ) FROM t"
    /\ result = "SELECT CAST(strftime('%j', f(a, b)) AS INTEGER) FROM t"

\* what the claim makes of to_char(e, fmt) for the format f of the family
CharOut(f, e) ==
    IF CharFormats[f][2] # ""
    THEN "strftime('" \o CharFormats[f][2] \o "', " \o e \o ")"
    ELSE "pg_to_char(" \o e \o ", '" \o CharFormats[f][1] \o "')"

\* C16: to_char(expr, fmt) becomes strftime('mapped', expr) when fmt holds only
\* the patterns YYYY, YY, HH24, HH12, HH, MM, DD, MI, SS (the longer pattern
\* winning), and pg_to_char(expr, fmt), the format unchanged, when it holds one of
\* Mon, Month, Day, Dy, AM, PM, A.M., P.M., TZ, OF, Q, TM in any letter case:
\* strftime is never emitted for a format with a run-time-only pattern.
C16_ToChar ==
    (pc = "return" /\ round = 1) =>
        \A shape \in 1..2, e \in 1..Len(CharArgs), f \in 1..Len(CharFormats), r \in 1..Len(CharRests) :
            sql = "SELECT " \o CharCall(shape, CharArgs[e], CharFormats[f][1]) \o CharRests[r]
                => result = "SELECT " \o CharOut(f, CharArgs[e]) \o CharRests[r]

\* C17: expr + INTERVAL 'N unit', expr - INTERVAL 'N unit' and the
\* INTERVAL 'N' UNIT form become datetime(expr, '+N unit') or
\* datetime(expr, '-N unit'), the unit in lower case; with NOW() as expr the
\* result is datetime(datetime('now'), '+N unit').
C17_IntervalArithmetic ==
    (pc = "return" /\ round = 1) =>
        \A e \in 1..Len(IntervalExprs), s \in 1..Len(IntervalSigns),
           f \in 1..Len(IntervalForms), r \in 1..Len(IntervalRests) :
            sql = "SELECT " \o IntervalExprs[e][1] \o " " \o IntervalSigns[s] \o " "
                    \o IntervalForms[f][1] \o IntervalRests[r]
                => result = "SELECT datetime(" \o IntervalExprs[e][2] \o ", '"
                     \o IntervalSigns[s] \o IntervalForms[f][2] \o "')" \o IntervalRests[r]


\* the common table expression the claim puts in front of the statement
SeriesCTE(a, b, st) ==
    "WITH RECURSIVE _gs(value) AS (SELECT " \o a \o " UNION ALL SELECT value + "
        \o (IF st = "" THEN "1" ELSE st) \o " FROM _gs WHERE value + "
        \o (IF st = "" THEN "1" ELSE st) \o " <= " \o b \o ") "

\* C18: FROM generate_series(start, stop[, step]) [[AS] alias] becomes a statement
\* that begins with WITH RECURSIVE _gs(value) AS (SELECT start UNION ALL SELECT
\* value + step FROM _gs WHERE value + step <= stop) and in which the call is
\* replaced by FROM _gs followed by the alias as written; step defaults to 1.
C18_GenerateSeries ==
    (pc = "return" /\ round = 1) =>
        \A c \in 1..Len(SeriesCols), a \in 1..Len(SeriesStarts), b \in 1..Len(SeriesStops),
           st \in 1..Len(SeriesSteps), al \in 1..Len(SeriesAliases) :
            sql = "SELECT " \o SeriesCols[c] \o " FROM "
                    \o SeriesCall(SeriesStarts[a], SeriesStops[b], SeriesSteps[st])
                    \o SeriesAliases[al]
                => result = SeriesCTE(SeriesStarts[a], SeriesStops[b], SeriesSteps[st])
                     \o "SELECT " \o SeriesCols[c] \o " FROM _gs" \o SeriesAliases[al]


\* C19: lhs op rhs with op one of ~, ~*, !~, !~* becomes
\* pg_regex_match(lhs, rhs, flag), prefixed by NOT for the two negated operators,
\* with flag 1 for the case-insensitive operators ~* and !~* and 0 otherwise.
C19_RegexOperators ==
    (pc = "return" /\ round = 1) =>
        \A l \in 1..Len(RegexLefts), g \in 1..Len(RegexGaps), o \in 1..Len(RegexOps),
           r \in 1..Len(RegexRights) :
            sql = "SELECT * FROM t WHERE " \o RegexLefts[l][1] \o RegexGaps[g] \o RegexOps[o][1]
                    \o RegexGaps[g] \o RegexRights[r][1]
                => result = "SELECT * FROM t WHERE " \o RegexOps[o][2] \o "pg_regex_match("
                     \o RegexLefts[l][2] \o ", " \o RegexRights[r][2] \o ", "
                     \o RegexOps[o][3] \o ")"


\* C20: CREATE SEQUENCE name [INCREMENT [BY] n] [START [WITH] n] is replaced by
\* INSERT OR IGNORE INTO _sequences (name, current_value, increment) VALUES
\* ('name', seed, inc), where inc is n of INCREMENT or 1, and seed is start - inc
\* whenever START was supplied and 0 otherwise.
C20_CreateSequence ==
    (pc = "return" /\ round = 1) =>
        \A h \in 1..Len(SequenceHeads), n \in 1..Len(SequenceNames), o \in 1..Len(SequenceOptions) :
            sql = SequenceHeads[h] \o SequenceNames[n] \o SequenceOptions[o][1]
                => result = "INSERT OR IGNORE INTO _sequences (name, current_value, increment) VALUES ('"
                     \o SequenceNames[n] \o "', " \o SequenceOptions[o][2] \o ", "
                     \o SequenceOptions[o][3] \o ")"


\* C21: through database/sql, after CREATE SEQUENCE s with default options the
\* k-th SELECT nextval('s') returns k, and a following SELECT currval('s')
\* returns the value of the most recent nextval and leaves the sequence as it is.
C21_SequenceThroughAPI ==
    script = << SeqThroughAPI >> =>
        \A i \in 1..Len(got[1]) :
            /\ got[1][i].err = NoError
            /\ i \in 2..3 => got[1][i].val = i - 1
            /\ i = 4 => got[1][i].val = 2 /\ SeqRow(seqs, "s").cur = 2


\* the messages the engine ends a statement with
EngineMessages ==
    { "near \"SEQUENCE\": syntax error", "no such function: nextval",
      "no such function: currval", "no such table: missing", "EOF",
      "constraint failed: UNIQUE constraint failed: t.id (1555)",
      "constraint failed: NOT NULL constraint failed: t.name (1299)",
      "database is locked (5) (SQLITE_BUSY)" }

\* C22: on every entry point (Prepare, PrepareContext, ExecContext, QueryContext,
\* stmt.Exec, stmt.Query and their context variants) an error of the engine
\* reaches the caller as a *PGError with a non-empty SQLSTATE code and with the
\* engine's message.
C22_EngineErrorsAreWrapped ==
    \A c \in DOMAIN got : \A i \in 1..Len(got[c]) :
        got[c][i].err # NoError =>
            /\ got[c][i].err.pg
            /\ got[c][i].err.code # ""
            /\ got[c][i].err.msg \in EngineMessages


\* the place of the code of a message: the least place of its phrases
FirstPlace(a, b, k) ==
    IF b = 0 THEN ClassifyPhrases[a][k]
    ELSE IF ClassifyPhrases[a][k] <= ClassifyPhrases[b][k] THEN ClassifyPhrases[a][k]
    ELSE ClassifyPhrases[b][k]

\* C23 as stated: the code is decided by the first, in the order 23505, 23502,
\* 23503, 23514, 42P01, 42703, 42601, of the substrings unique constraint, not
\* null constraint, foreign key constraint, check constraint, no such table, no
\* such column, syntax error that occurs in the message in any letter case, and
\* is XX000 for every other message.
C23_ClassifyAsStated ==
    pc = "return" =>
        \A a \in 1..Len(ClassifyPhrases), b \in 0..Len(ClassifyPhrases) :
            sql = ClassifyMessage(a, b) => result = SQLStates[FirstPlace(a, b, 2)]

\* C23: as stated, with the first six substrings matched in their underscore
\* spelling as well (unique_constraint, not_null_constraint, ...); the code is
\* always one of the eight.
C23_Classify ==
    pc = "return" =>
        /\ \E k \in 1..Len(SQLStates) : result = SQLStates[k]
        /\ \A a \in 1..Len(ClassifyPhrases), b \in 0..Len(ClassifyPhrases) :
              sql = ClassifyMessage(a, b) => result = SQLStates[FirstPlace(a, b, 3)]

\* C23 witness: a message with two of the substrings, the later one first in
\* the order, in upper case
C23_Witness ==
    /\ pc = "return"
    /\ sql = "no such table: t; UNIQUE constraint failed: t.id"
    /\ result = "23505"


\* C24: parseDSN returns :memory: and a file: URI unchanged, maps a
\* postgres:// or postgresql:// URL with database path X and a key=value
\* DSN holding dbname=X to X.db, and returns a plain SQLite file path
\* unchanged.
C24_ParseDSN ==
    pc = "return" => \A c \in DSNCases : sql = c[1] => result = c[2]

\* the token sequence holds the lexeme l as one token of its kind
HoldsLexeme(toks, l) ==
    \E i \in 1..Len(toks) : toks[i].Kind = l[2] /\ toks[i].Raw = l[1]

\* C25: a single-quoted string, a double-quoted identifier and a comment
\* are atomic lexemes: the tokenizer makes one token of the whole lexeme,
\* whatever its text looks like, and no pass rewrites part of it, so it
\* comes out unchanged.
C25_AtomicLexemes ==
    (round = 1 /\ pc \notin {"Tokenize", "panic"}) =>
        \A l \in AtomicLexemes, p \in AtomicPlaces :
            sql = AtomicText(l, p) =>
                /\ HoldsLexeme(tokens, l)
                /\ pc = "return" => Contains(result, l[1])

\* C25, the tokenizer's half: the lexeme is one token of Tokenize's result
C25_TokenizedWhole ==
    (round = 1 /\ pc = "translateDDL") =>
        \A l \in AtomicLexemes, p \in AtomicPlaces :
            sql = AtomicText(l, p) => HoldsLexeme(tokens, l)

\* the tokens a pass has made: those the tokenizer did not produce
Synthesized(toks, s) ==
    LET lexed == Tokenize(s)
    IN  { i \in 1..Len(toks) : \A j \in 1..Len(lexed) : lexed[j] # toks[i] }

\* C26: after every rewrite pass every token of the sequence has a
\* non-empty Raw, and every token a pass has synthesized has Raw equal to
\* Value.
C26_RawWellFormed ==
    pc \in {"translateExpressions", "translateFunctions", "translateNullsOrdering",
            "translateParams", "Reassemble", "return"} =>
        /\ \A i \in 1..Len(tokens) : tokens[i].Raw # ""
        /\ \A i \in Synthesized(tokens, sql) : tokens[i].Raw = tokens[i].Value

\* C27: where a longer operator and one of its prefixes both match, the
\* tokenizer emits the longer one as a single Operator token; a $ followed
\* by digits is one Parameter token; a $ that starts neither a closed
\* dollar-quote nor a digit run is the one-character Operator $.
C27_LongestOperator ==
    (round = 1 /\ pc = "translateDDL") =>
        \A c \in OperatorCases : sql = c[1] => tokens = c[2]

\* C27 witness: a->>'k'->0 has been tokenized with ->> and -> as operators
C27_Witness ==
    /\ round = 1 /\ pc = "translateDDL" /\ sql = "a->>'k'->0"
    /\ \E i \in 1..Len(tokens) : tokens[i] = Op("->>")

\* the arguments of a call, all different
Arguments == <<"first", "second", "third">>

\* the numbers of the $N parameters of a statement, from the left
RECURSIVE Designated(_)
Designated(toks) ==
    IF toks = <<>> THEN <<>>
    ELSE IF Head(toks).Kind = TokParam
         THEN <<DecimalValue(Slice(Head(toks).Value, 1, Len(Head(toks).Value)))>>
                \o Designated(Tail(toks))
         ELSE Designated(Tail(toks))

\* C28: parameter binding is preserved by the $N to ? rewrite: the k-th ?
\* of the output takes the k-th argument, and that is the argument the
\* corresponding $N of the input designated, the N-th, also when the
\* numbers are not ascending or one is used more than once.
C28_ParameterBinding ==
    (pc = "return" /\ round = 1) =>
        LET des == Designated(Tokenize(sql))
        IN  /\ CountTokens(tokens, TokOperator, "?") = Len(des)
            /\ \A k \in 1..Len(des) : Arguments[k] = Arguments[des[k]]

\* C28 for statements whose k-th parameter is $k
C28_AscendingBinding ==
    (pc = "return" /\ round = 1) =>
        LET des == Designated(Tokenize(sql))
        IN  (\A k \in 1..Len(des) : des[k] = k) =>
                /\ CountTokens(tokens, TokOperator, "?") = Len(des)
                /\ \A k \in 1..Len(des) : Arguments[k] = Arguments[des[k]]

\* the values the calls of connection c that ran nextval('s') have returned
NextvalResults(c) ==
    { got[c][i].val : i \in { j \in 1..Len(got[c]) :
        /\ got[c][j].err = NoError
        /\ \/ got[c][j].op = "QueryContext" /\ got[c][j].query = NextvalQuery
           \/ got[c][j].op \in {"StmtQuery", "StmtQueryContext"} } }

\* C29: no sequence value is handed out twice: when two connections to the
\* same database run nextval on the same sequence, under every
\* interleaving of their steps the two calls return different values.
C29_NoValueTwice ==
    Len(script) = 2 => NextvalResults(1) \cap NextvalResults(2) = {}

\* the runs of the prepared statement that connection 1 has finished
StmtRuns ==
    SelectSeq(got[1], LAMBDA g : g.op \in {"StmtQuery", "StmtQueryContext"} /\ g.err = NoError)

\* connection 1 has prepared the statement with nextval('s')
PreparedNextval ==
    /\ Len(script) = 1 /\ script[1] \in PreparedScripts
    /\ Len(got[1]) >= 2 /\ got[1][2].err = NoError
    /\ cst[1].pc = "idle"

\* C30: a sequence advances once per execution of a statement containing
\* nextval('s'): preparing the statement without executing it leaves
\* current_value of s unchanged, and executing one prepared statement n
\* times yields n successive values of s.
C30_AdvancesPerExecution ==
    PreparedNextval =>
        /\ SeqRow(seqs, "s").cur = Len(StmtRuns)
        /\ \A i \in 1..Len(StmtRuns) : StmtRuns[i].val = i

=============================================================================
